---------------------------- MODULE Spec2Model ----------------------------
(***************************************************************************)
(* A model of pkg/dns: the KubeDNS reconciler and resolver (dns.go) over   *)
(* its TreeCache.  Service and endpoints events rebuild per-service        *)
(* subtrees of the cache; Records answers exact and wildcard queries.      *)
(*                                                                         *)
(* Strings are sequences of one-character strings, so that splitting,      *)
(* joining, dash/dot replacement, IP parsing and hashing are computed the  *)
(* way the code computes them.                                             *)
(***************************************************************************)
EXTENDS Integers, Sequences, FiniteSets, TLC

VARIABLES servicesStore, endpointsStore, cache, last,
          handlers, cacheLock, query, boot

vars == <<servicesStore, endpointsStore, cache, last, handlers, cacheLock, query, boot>>

\* the state of the goroutines: the handler each informer is running, the
\* lock of the cache, a query in progress and the progress of Start
goroutines == <<handlers, cacheLock, query, boot>>

(***************************************************************************)
(* Bounds of the model.                                                    *)
(***************************************************************************)
MaxPorts == 2
MaxSubsets == 2
MaxAddresses == 2

(***************************************************************************)
(* Strings.                                                                *)
(***************************************************************************)
RECURSIVE Flatten(_)
Flatten(ss) == IF ss = <<>> THEN <<>> ELSE Head(ss) \o Flatten(Tail(ss))

\* strings.Join(parts, sep)
RECURSIVE Join(_, _)
Join(parts, sep) ==
    IF parts = <<>> THEN <<>>
    ELSE IF Len(parts) = 1 THEN parts[1]
    ELSE parts[1] \o sep \o Join(Tail(parts), sep)

\* strings.Split(s, sep) for a one-character separator: the fields between
\* the separators, one more than there are separators (an empty string
\* yields one empty field)
Split(s, c) ==
    LET seps == {i \in 1..Len(s) : s[i] = c}
        \* the position of the k-th separator; 0 and Len(s) + 1 bound the string
        sepAt(k) == IF k = 0 THEN 0
                    ELSE IF k > Cardinality(seps) THEN Len(s) + 1
                    ELSE CHOOSE i \in seps : Cardinality({j \in seps : j < i}) = k - 1
    IN  [k \in 1..(Cardinality(seps) + 1) |-> SubSeq(s, sepAt(k - 1) + 1, sepAt(k) - 1)]

\* strings.TrimRight(s, cutset) for a one-character cutset
RECURSIVE TrimRight(_, _)
TrimRight(s, c) ==
    IF s # <<>> /\ s[Len(s)] = c THEN TrimRight(SubSeq(s, 1, Len(s) - 1), c)
    ELSE s

\* strings.Replace(s, old, new, -1) for one-character old and new
Replace(s, old, new) == [i \in 1..Len(s) |-> IF s[i] = old THEN new ELSE s[i]]

UpperCase == <<"A","B","C","D","E","F","G","H","I","J","K","L","M",
               "N","O","P","Q","R","S","T","U","V","W","X","Y","Z">>
LowerCase == <<"a","b","c","d","e","f","g","h","i","j","k","l","m",
               "n","o","p","q","r","s","t","u","v","w","x","y","z">>

LowerChar(c) ==
    IF \E i \in 1..26 : UpperCase[i] = c
    THEN LowerCase[CHOOSE i \in 1..26 : UpperCase[i] = c]
    ELSE c

\* strings.ToLower
ToLower(s) == [i \in 1..Len(s) |-> LowerChar(s[i])]

Range(f) == {f[x] : x \in DOMAIN f}

Min(a, b) == IF a < b THEN a ELSE b

reverseArray(arr) == [i \in 1..Len(arr) |-> arr[Len(arr) - i + 1]]

Digits == <<"0","1","2","3","4","5","6","7","8","9">>

IsDigit(c) == \E i \in 1..10 : Digits[i] = c

DigitVal(c) == (CHOOSE i \in 1..10 : Digits[i] = c) - 1

\* strconv.Itoa for n >= 0
RECURSIVE Itoa(_)
Itoa(n) == IF n < 10 THEN <<Digits[n + 1]>>
           ELSE Itoa(n \div 10) \o <<Digits[(n % 10) + 1]>>

(***************************************************************************)
(* The IP addresses the inputs are drawn from.                             *)
(***************************************************************************)
IP(a, b, c, d) == Join(<<Itoa(a), Itoa(b), Itoa(c), Itoa(d)>>, <<".">>)

\* cluster IPs of portal services
ClusterIPPool == <<IP(1, 2, 3, 4), IP(1, 2, 3, 5), IP(1, 2, 3, 6), IP(1, 2, 3, 7)>>

\* IPs of endpoint addresses
EndpointIPPool == <<IP(10, 0, 0, 1), IP(10, 0, 0, 2), IP(10, 0, 0, 3), IP(10, 0, 0, 4)>>

\* IPs of pods that are queried by name
PodIPPool == <<IP(0, 0, 0, 0), IP(255, 255, 255, 255), IP(192, 168, 100, 200)>>


(***************************************************************************)
(* getSkyMsg: the record value and its label.  The label is the hexadecimal *)
(* rendering of the string that is the hexadecimal rendering of the 32-bit  *)
(* FNV-1a hash of the printed record.                                       *)
(***************************************************************************)
\* The printable ASCII characters, code 32 first (the backslash and the
\* backtick, which no name or record holds, are spelled out).
Ascii ==
    <<" ", "!", "\"", "#", "$", "%", "&", "'", "(", ")", "*", "+",
      ",", "-", ".", "/", "0", "1", "2", "3", "4", "5", "6", "7",
      "8", "9", ":", ";", "<", "=", ">", "?", "@", "A", "B", "C",
      "D", "E", "F", "G", "H", "I", "J", "K", "L", "M", "N", "O",
      "P", "Q", "R", "S", "T", "U", "V", "W", "X", "Y", "Z", "[",
      "backslash", "]", "^", "_", "backtick", "a", "b", "c", "d", "e", "f", "g",
      "h", "i", "j", "k", "l", "m", "n", "o", "p", "q", "r", "s",
      "t", "u", "v", "w", "x", "y", "z", "{", "|", "}", "~">>

Ord(c) == (CHOOSE i \in 1..Len(Ascii) : Ascii[i] = c) + 31

RECURSIVE Xor(_, _, _)
Xor(a, b, bits) ==
    IF bits = 0 THEN 0
    ELSE (IF (a % 2) # (b % 2) THEN 1 ELSE 0) + 2 * Xor(a \div 2, b \div 2, bits - 1)

\* hash/fnv New32a: a 32-bit value is kept as <<high 16 bits, low 16 bits>>.
\* offset basis 2166136261 = 0x811C9DC5, prime 16777619 = 2^24 + 403.
FnvOffsetHi == 33052
FnvOffsetLo == 40389
FnvPrimeLow == 403

\* one step of Write: h = (h XOR byte) * prime mod 2^32
FnvStep(h, byte) ==
    LET lo == (h[2] - (h[2] % 256)) + Xor(h[2] % 256, byte, 8)
        hi == h[1]
        p  == lo * FnvPrimeLow
    IN  << ((lo % 256) * 256 + hi * FnvPrimeLow + (p \div 65536)) % 65536,
           p % 65536 >>

\* Write of the bytes s[from..to] into the hash h
RECURSIVE FnvWrite(_, _, _, _)
FnvWrite(h, s, from, to) ==
    IF to < from THEN h
    ELSE LET before == FnvWrite(h, s, from, to - 1)
         IN  IF Len(before) = 2 THEN FnvStep(before, Ord(s[to])) ELSE before

\* Write of s from index i on, twelve bytes at a time
RECURSIVE FnvWriteFrom(_, _, _)
FnvWriteFrom(h, s, i) ==
    IF i > Len(s) THEN h
    ELSE LET next == FnvWrite(h, s, i, Min(i + 11, Len(s)))
         IN  IF Len(next) = 2 THEN FnvWriteFrom(next, s, i + 12) ELSE next

Sum32(s) == FnvWriteFrom(<<FnvOffsetHi, FnvOffsetLo>>, s, 1)

HexDigits == <<"0","1","2","3","4","5","6","7","8","9","a","b","c","d","e","f">>

\* the base-16 digits of n, most significant first, no padding
RECURSIVE HexOf(_)
HexOf(n) == IF n < 16 THEN <<HexDigits[n + 1]>>
            ELSE HexOf(n \div 16) \o <<HexDigits[(n % 16) + 1]>>

\* n rendered in exactly four base-16 digits
Hex4(n) == << HexDigits[(n \div 4096) + 1], HexDigits[((n \div 256) % 16) + 1],
              HexDigits[((n \div 16) % 16) + 1], HexDigits[(n % 16) + 1] >>

\* fmt.Sprintf("%x", uint32)
HexUint32(h) == IF h[1] = 0 THEN HexOf(h[2]) ELSE HexOf(h[1]) \o Hex4(h[2])

\* fmt.Sprintf("%x", string): two base-16 digits for every byte
HexString(s) ==
    Flatten([i \in 1..Len(s) |->
               <<HexDigits[(Ord(s[i]) \div 16) + 1], HexDigits[(Ord(s[i]) % 16) + 1]>>])

Priority == 10
Weight == 10
Ttl == 30

\* skymsg.Service as getSkyMsg fills it
SkyMsg(host, port) ==
    [Host |-> host, Port |-> port, Priority |-> Priority, Weight |-> Weight, Ttl |-> Ttl]

\* fmt.Sprintf("%v", msg) of the pointer to the record: the fields in order,
\* the unset Text, Mail, TargetStrip, Group and Key included.
PrintMsg(msg) ==
    <<"&", "{">> \o msg.Host \o <<" ">> \o Itoa(msg.Port) \o <<" ">>
    \o Itoa(msg.Priority) \o <<" ">> \o Itoa(msg.Weight) \o <<" ", " ">>
    \o <<"f","a","l","s","e">> \o <<" ">> \o Itoa(msg.Ttl) \o <<" ", "0", " ", " ", "}">>

\* the label getSkyMsg returns with the record
HashLabel(ip, port) == HexString(HexUint32(Sum32(PrintMsg(SkyMsg(ip, port)))))

\* the labels of the A records of the pools, computed once
HashLabelOfPoolIP ==
    [ip \in Range(ClusterIPPool) \cup Range(EndpointIPPool) \cup Range(PodIPPool) |->
        HashLabel(ip, 0)]

getSkyMsgLabel(ip, port) ==
    IF port = 0 /\ ip \in DOMAIN HashLabelOfPoolIP THEN HashLabelOfPoolIP[ip]
    ELSE HashLabel(ip, port)

getSkyMsg(ip, port) == <<SkyMsg(ip, port), getSkyMsgLabel(ip, port)>>

(***************************************************************************)
(* Go maps, as functions on the set of keys present.                       *)
(***************************************************************************)
EmptyMap == [k \in {} |-> {}]

MapPut(m, k, v) == [x \in (DOMAIN m) \cup {k} |-> IF x = k THEN v ELSE m[x]]

MapDelete(m, k) == [x \in (DOMAIN m) \ {k} |-> m[x]]

\* the elements of a set in one (arbitrary) order: ranging over a Go map
RECURSIVE SetToSeq(_)
SetToSeq(S) ==
    IF S = {} THEN <<>>
    ELSE LET x == CHOOSE y \in S : TRUE IN <<x>> \o SetToSeq(S \ {x})

\* the values of a map in one (arbitrary) order
MapValues(m) == LET ks == SetToSeq(DOMAIN m) IN [i \in 1..Len(ks) |-> m[ks[i]]]

(***************************************************************************)
(* TreeCache: a node has child nodes and entries, both keyed by label.     *)
(***************************************************************************)
Nil == "nil"

Wildcard == <<"*">>

NewTreeCache == [ChildNodes |-> EmptyMap, Entries |-> EmptyMap]

\* getSubCache(path...): the node reached from node along path; ok is FALSE
\* (the nil node) when a label of the path names no child
RECURSIVE getSubCache(_, _)
getSubCache(node, path) ==
    IF path = <<>> THEN [ok |-> TRUE, node |-> node]
    ELSE IF Head(path) \in DOMAIN node.ChildNodes
         THEN getSubCache(node.ChildNodes[Head(path)], Tail(path))
         ELSE [ok |-> FALSE, node |-> NewTreeCache]

\* setEntry(key, val, path...): intermediate nodes are created as needed
RECURSIVE setEntry(_, _, _, _)
setEntry(node, key, val, path) ==
    IF path = <<>> THEN [node EXCEPT !.Entries = MapPut(@, key, val)]
    ELSE LET child == IF Head(path) \in DOMAIN node.ChildNodes
                      THEN node.ChildNodes[Head(path)] ELSE NewTreeCache
         IN  [node EXCEPT !.ChildNodes =
                 MapPut(@, Head(path), setEntry(child, key, val, Tail(path)))]

\* setSubCache(key, subCache, path...): the child under key is replaced whole
RECURSIVE setSubCache(_, _, _, _)
setSubCache(node, key, subCache, path) ==
    IF path = <<>> THEN [node EXCEPT !.ChildNodes = MapPut(@, key, subCache)]
    ELSE LET child == IF Head(path) \in DOMAIN node.ChildNodes
                      THEN node.ChildNodes[Head(path)] ELSE NewTreeCache
         IN  [node EXCEPT !.ChildNodes =
                 MapPut(@, Head(path), setSubCache(child, key, subCache, Tail(path)))]

\* getEntry(key, path...): <<value, ok>>
getEntry(node, key, path) ==
    LET n == getSubCache(node, path)
    IN  IF n.ok /\ key \in DOMAIN n.node.Entries THEN <<n.node.Entries[key], TRUE>>
        ELSE <<Nil, FALSE>>

\* deletePath(path...): the last label's child node, and an entry of the
\* parent under the same label, are removed; nothing happens when the walk
\* to the parent fails.
RECURSIVE deletePath(_, _)
deletePath(node, path) ==
    IF path = <<>> THEN node
    ELSE IF Len(path) = 1
         THEN [ChildNodes |-> MapDelete(node.ChildNodes, path[1]),
               Entries    |-> MapDelete(node.Entries, path[1])]
    ELSE IF Head(path) \in DOMAIN node.ChildNodes
         THEN [node EXCEPT !.ChildNodes[Head(path)] = deletePath(@, Tail(path))]
         ELSE node

\* One level of the walk below the last label: a wildcard matches every
\* child of every node of the frontier, a literal label the child it names.
ChildrenMatching(nodes, label) ==
    Flatten([i \in 1..Len(nodes) |->
        IF label = Wildcard THEN MapValues(nodes[i].ChildNodes)
        ELSE IF label \in DOMAIN nodes[i].ChildNodes
             THEN <<nodes[i].ChildNodes[label]>>
             ELSE <<>>])

\* The frontier before the last label.
RECURSIVE Frontier(_, _)
Frontier(nodes, path) ==
    IF path = <<>> THEN nodes
    ELSE Frontier(ChildrenMatching(nodes, Head(path)), Tail(path))

\* The last label: a literal label selects the entry of that name, or else
\* the child node of that name, whose entries are the result; a wildcard
\* selects the entries of the node itself.
EntriesHit(nodes, label) ==
    Flatten([i \in 1..Len(nodes) |->
        IF label # Wildcard /\ label \in DOMAIN nodes[i].Entries
        THEN <<nodes[i].Entries[label]>> ELSE <<>>])

LastNodes(nodes, label) ==
    Flatten([i \in 1..Len(nodes) |->
        IF label = Wildcard THEN <<nodes[i]>>
        ELSE IF label \notin DOMAIN nodes[i].Entries /\ label \in DOMAIN nodes[i].ChildNodes
             THEN <<nodes[i].ChildNodes[label]>>
             ELSE <<>>])

\* getValuesForPathWithWildcards(path...)
getValuesForPathWithWildcards(node, path) ==
    IF path = <<>> THEN MapValues(node.Entries)
    ELSE LET front == Frontier(<<node>>, SubSeq(path, 1, Len(path) - 1))
             lastLabel  == path[Len(path)]
             ends  == LastNodes(front, lastLabel)
         IN  EntriesHit(front, lastLabel)
             \o Flatten([i \in 1..Len(ends) |-> MapValues(ends[i].Entries)])

(***************************************************************************)
(* net.ParseIP on dotted-decimal text: four fields of decimal digits, each *)
(* at most 255.  (No name of the model holds a colon, so the IPv6 branch   *)
(* is never taken.)                                                        *)
(***************************************************************************)
\* dtoi: the value of a run of digits, saturating above 255
RECURSIVE Dtoi(_, _, _)
Dtoi(s, i, n) ==
    IF i > Len(s) THEN n
    ELSE Dtoi(s, i + 1, IF n > 255 THEN n ELSE 10 * n + DigitVal(s[i]))

IsIPv4Field(f) ==
    /\ f # <<>>
    /\ \A i \in 1..Len(f) : IsDigit(f[i])
    /\ Dtoi(f, 1, 0) <= 255

ParseIP(s) ==
    LET fields == Split(s, ".")
    IN  /\ Len(fields) = 4
        /\ \A i \in 1..4 : IsIPv4Field(fields[i])

(***************************************************************************)
(* Names and constants of the package.                                     *)
(***************************************************************************)
serviceSubdomain == <<"s","v","c">>
podSubdomain == <<"p","o","d">>

\* the domain the server is authoritative for: "cluster.local."
domain == <<"c","l","u","s","t","e","r",".","l","o","c","a","l",".">>

\* NewKubeDNS: the domain, in array format and reversed
domainPath == reverseArray(Split(TrimRight(domain, "."), "."))

ClusterIPNone == <<"N","o","n","e">>

\* kapi.IsServiceIPSet
IsServiceIPSet(service) ==
    service.ClusterIP # ClusterIPNone /\ service.ClusterIP # <<>>

\* kcache.MetaNamespaceKeyFunc: "<namespace>/<name>", the name alone when the
\* namespace is empty
MetaNamespaceKeyFunc(obj) ==
    IF obj.Namespace # <<>> THEN obj.Namespace \o <<"/">> \o obj.Name ELSE obj.Name

\* the query results: the records and the error
NoError == "nil"
ErrKeyNotFound == "KeyNotFound"
ErrInvalidIP == "InvalidIP"
ErrInvalidJSON == "InvalidJSON"

(***************************************************************************)
(* Record synthesis.                                                       *)
(***************************************************************************)
\* generateSRVRecordValue(svc, portNumber, labels...)
RECURSIVE PrependLabels(_, _)
PrependLabels(host, labels) ==
    IF labels = <<>> THEN host
    ELSE PrependLabels(Head(labels) \o <<".">> \o host, Tail(labels))

generateSRVRecordValue(svc, portNumber, labels) ==
    LET host == Join(<<svc.Name, svc.Namespace, serviceSubdomain, domain>>, <<".">>)
    IN  SkyMsg(PrependLabels(host, labels), portNumber)

\* a variant of SRVPath that keeps the protocol as it is written
SRVPathProtocolAsWritten(port) == << <<"_">> \o port.Protocol, <<"_">> \o port.Name >>

\* the path of a port's SRV entries below the service's node
SRVPath(port) == << <<"_">> \o ToLower(port.Protocol), <<"_">> \o port.Name >>

\* a variant of the loop below that stores the SRV entries next to the A
\* entry, under the A entry's label, instead of under the port's path
RECURSIVE PortalSRVRecordsAtRoot(_, _, _, _)
PortalSRVRecordsAtRoot(subCache, service, recordLabel, i) ==
    IF i > Len(service.Ports) THEN subCache
    ELSE LET port == service.Ports[i]
             next == IF port.Name # <<>> /\ port.Protocol # <<>>
                     THEN setEntry(subCache, recordLabel,
                                   generateSRVRecordValue(service, port.Port, <<>>),
                                   <<>>)
                     ELSE subCache
         IN  PortalSRVRecordsAtRoot(next, service, recordLabel, i + 1)

\* the loop of newPortalService over service.Spec.Ports, from index i
RECURSIVE PortalSRVRecords(_, _, _, _)
PortalSRVRecords(subCache, service, recordLabel, i) ==
    IF i > Len(service.Ports) THEN subCache
    ELSE LET port == service.Ports[i]
             next == IF port.Name # <<>> /\ port.Protocol # <<>>
                     THEN setEntry(subCache, recordLabel,
                                   generateSRVRecordValue(service, port.Port, <<>>),
                                   SRVPath(port))
                     ELSE subCache
         IN  PortalSRVRecords(next, service, recordLabel, i + 1)

\* the subcache newPortalService builds
PortalSubCache(service) ==
    LET sky == getSkyMsg(service.ClusterIP, 0)
    IN  PortalSRVRecords(setEntry(NewTreeCache, sky[2], sky[1], <<>>), service, sky[2], 1)

\* a variant of newPortalService that stores the A record as an entry of the
\* namespace's node under the service's name, and no node for the service
newPortalServiceAsEntry(c, service) ==
    setEntry(c, service.Name, getSkyMsg(service.ClusterIP, 0)[1],
             domainPath \o <<serviceSubdomain, service.Namespace>>)

\* newPortalService: the cache after it
newPortalService(c, service) ==
    setSubCache(c, service.Name, PortalSubCache(service),
                domainPath \o <<serviceSubdomain, service.Namespace>>)

(***************************************************************************)
(* The pod-hostnames annotation: JSON text, a map from IP to a HostRecord  *)
(* {"HostName": "..."}.  json.Unmarshal is modelled on compact JSON text   *)
(* (objects and strings, no white space, no escapes); any other text is    *)
(* rejected.  The text is cut at its quotes: the odd tokens are the        *)
(* punctuation, the even tokens the strings.                               *)
(***************************************************************************)
\* endpoints.PodHostnamesAnnotation
PodHostnamesAnnotation ==
    <<"e","n","d","p","o","i","n","t","s",".","b","e","t","a",".",
      "k","u","b","e","r","n","e","t","e","s",".","i","o","/",
      "h","o","s","t","n","a","m","e","s","-","m","a","p">>

Quote == "\""

HostNameField == <<"h","o","s","t","n","a","m","e">>

\* the punctuation that may precede a key of the map, a field name of a
\* HostRecord, and a field value
BeforeKey == { <<"{">>, <<"}", ",">>, <<":", "{", "}", ",">> }
BeforeFieldName == { <<":", "{">>, <<",">> }
BeforeFieldValue == { <<":">> }

\* the punctuation that may follow them
AfterKey == { <<":", "{">>, <<":", "{", "}", ",">>, <<":", "{", "}", "}">> }
AfterFieldName == { <<":">> }
AfterFieldValue == { <<",">>, <<"}", ",">>, <<"}", "}">> }

\* the punctuation that closes the map
MapEnd == { <<"}", "}">>, <<":", "{", "}", "}">> }

StringIndices(toks) == {i \in 1..Len(toks) : i % 2 = 0}

KeyIndices(toks) == {i \in StringIndices(toks) : toks[i - 1] \in BeforeKey}

\* the text is a JSON object of HostRecord objects
JSONValid(toks) ==
    /\ Len(toks) % 2 = 1
    /\ IF Len(toks) = 1 THEN toks[1] = <<"{", "}">>
       ELSE /\ toks[1] = <<"{">>
            /\ \A i \in StringIndices(toks) :
                 \/ toks[i - 1] \in BeforeKey /\ toks[i + 1] \in AfterKey
                 \/ toks[i - 1] \in BeforeFieldName /\ toks[i + 1] \in AfterFieldName
                 \/ toks[i - 1] \in BeforeFieldValue /\ toks[i + 1] \in AfterFieldValue
            /\ \A i \in 1..Len(toks) : (toks[i] \in MapEnd) <=> (i = Len(toks))

\* the HostName of the record of the key at index i: the value of the last
\* field of that record named HostName (in any case), or the empty string
HostNameAt(toks, i) ==
    LET names == {j \in StringIndices(toks) :
                     /\ j > i
                     /\ toks[j - 1] \in BeforeFieldName
                     /\ ToLower(toks[j]) = HostNameField
                     /\ \A k \in KeyIndices(toks) : k <= i \/ k > j}
    IN  IF names = {} THEN <<>>
        ELSE toks[(CHOOSE j \in names : \A k \in names : k <= j) + 2]

\* the map the text decodes to: the last member of a key wins
JSONHostnames(toks) ==
    [key \in {toks[i] : i \in KeyIndices(toks)} |->
        [HostName |-> HostNameAt(toks,
              CHOOSE i \in KeyIndices(toks) :
                  /\ toks[i] = key
                  /\ \A k \in KeyIndices(toks) : toks[k] = key => k <= i)]]

\* json.Unmarshal(text, &hostnames): [ok, val]
UnmarshalTokens(toks) ==
    IF JSONValid(toks) THEN [ok |-> TRUE, val |-> JSONHostnames(toks)]
    ELSE [ok |-> FALSE, val |-> EmptyMap]

UnmarshalHostnames(s) == UnmarshalTokens(Split(s, Quote))

\* getPodHostnamesFromAnnotation(annotations): [err, hostnames]
PodHostnamesResult(r) ==
    [err |-> IF r.ok THEN NoError ELSE ErrInvalidJSON, hostnames |-> r.val]

\* a variant of getPodHostnamesFromAnnotation that takes an annotation that
\* is no JSON text for an absent one
getPodHostnamesOrNone(annotations) ==
    IF PodHostnamesAnnotation \in DOMAIN annotations
       /\ Len(annotations[PodHostnamesAnnotation]) > 0
       /\ UnmarshalHostnames(annotations[PodHostnamesAnnotation]).ok
    THEN PodHostnamesResult(UnmarshalHostnames(annotations[PodHostnamesAnnotation]))
    ELSE [err |-> NoError, hostnames |-> EmptyMap]

getPodHostnamesFromAnnotation(annotations) ==
    IF PodHostnamesAnnotation \in DOMAIN annotations
       /\ Len(annotations[PodHostnamesAnnotation]) > 0
    THEN PodHostnamesResult(UnmarshalHostnames(annotations[PodHostnamesAnnotation]))
    ELSE [err |-> NoError, hostnames |-> EmptyMap]

\* validation.IsDNS1123Label: lower-case letters, digits and dashes, first
\* and last not a dash, at most 63 characters
DNS1123LabelMaxLength == 63

IsLowerAlnum(c) == IsDigit(c) \/ \E i \in 1..26 : LowerCase[i] = c

IsDNS1123Label(v) ==
    /\ Len(v) >= 1
    /\ Len(v) <= DNS1123LabelMaxLength
    /\ \A i \in 1..Len(v) : IsLowerAlnum(v[i]) \/ v[i] = "-"
    /\ v[1] # "-"
    /\ v[Len(v)] # "-"

\* getHostname(address, podHostnames): <<label, exists>>
getHostname(address, podHostnames) ==
    IF Len(address.Hostname) > 0 THEN <<address.Hostname, TRUE>>
    ELSE IF address.IP \in DOMAIN podHostnames
            /\ IsDNS1123Label(podHostnames[address.IP].HostName)
         THEN <<podHostnames[address.IP].HostName, TRUE>>
    ELSE <<(<<>>), FALSE>>

\* a variant of EndpointName that stores an address without hostname under
\* its dash-encoded IP
EndpointNameDashed(address, podHostnames) ==
    LET h == getHostname(address, podHostnames)
    IN  IF h[2] THEN h[1] ELSE Replace(address.IP, ".", "-")

\* the label an address of a headless service is stored under
EndpointName(address, podHostnames) ==
    LET h == getHostname(address, podHostnames)
    IN  IF h[2] THEN h[1] ELSE getSkyMsg(address.IP, 0)[2]

\* a variant of the loop below whose SRV records point at the service's own
\* name instead of the endpoint's
RECURSIVE HeadlessSRVRecordsToService(_, _, _, _, _)
HeadlessSRVRecordsToService(subCache, svc, ports, endpointName, i) ==
    IF i > Len(ports) THEN subCache
    ELSE LET endpointPort == ports[i]
             next == IF endpointPort.Name # <<>> /\ endpointPort.Protocol # <<>>
                     THEN setEntry(subCache, endpointName,
                                   generateSRVRecordValue(svc, endpointPort.Port, <<>>),
                                   SRVPath(endpointPort))
                     ELSE subCache
         IN  HeadlessSRVRecordsToService(next, svc, ports, endpointName, i + 1)

\* the loop over the ports of a subset for one address, from index i
RECURSIVE HeadlessSRVRecords(_, _, _, _, _)
HeadlessSRVRecords(subCache, svc, ports, endpointName, i) ==
    IF i > Len(ports) THEN subCache
    ELSE LET endpointPort == ports[i]
             next == IF endpointPort.Name # <<>> /\ endpointPort.Protocol # <<>>
                     THEN setEntry(subCache, endpointName,
                                   generateSRVRecordValue(svc, endpointPort.Port,
                                                          <<endpointName>>),
                                   SRVPath(endpointPort))
                     ELSE subCache
         IN  HeadlessSRVRecords(next, svc, ports, endpointName, i + 1)

\* the loop over the addresses of a subset, from index i
RECURSIVE HeadlessAddresses(_, _, _, _, _)
HeadlessAddresses(subCache, svc, subset, podHostnames, i) ==
    IF i > Len(subset.Addresses) THEN subCache
    ELSE LET address == subset.Addresses[i]
             endpointName == EndpointName(address, podHostnames)
             withA == setEntry(subCache, endpointName, SkyMsg(address.IP, 0), <<>>)
         IN  HeadlessAddresses(
                 HeadlessSRVRecords(withA, svc, subset.Ports, endpointName, 1),
                 svc, subset, podHostnames, i + 1)

\* a variant of the loop below that stops after the first subset
HeadlessFirstSubsetOnly(subCache, svc, e, podHostnames, i) ==
    IF i > Len(e.Subsets) THEN subCache
    ELSE HeadlessAddresses(subCache, svc, e.Subsets[i], podHostnames, 1)

\* the loop over the subsets, from index i
RECURSIVE HeadlessSubsets(_, _, _, _, _)
HeadlessSubsets(subCache, svc, e, podHostnames, i) ==
    IF i > Len(e.Subsets) THEN subCache
    ELSE HeadlessSubsets(HeadlessAddresses(subCache, svc, e.Subsets[i], podHostnames, 1),
                         svc, e, podHostnames, i + 1)

\* the subcache generateRecordsForHeadlessService builds
HeadlessSubCache(e, svc, podHostnames) ==
    HeadlessSubsets(NewTreeCache, svc, e, podHostnames, 1)

\* a variant of generateRecordsForHeadlessService that adds the records to
\* the service's present subtree instead of building a new one
generateRecordsMerging(c, e, svc) ==
    LET ph == getPodHostnamesFromAnnotation(e.Annotations)
        present == getSubCache(c, domainPath \o <<serviceSubdomain, svc.Namespace, svc.Name>>)
    IN  IF ph.err # NoError THEN [err |-> ph.err, cache |-> c]
        ELSE [err |-> NoError,
              cache |-> setSubCache(c, svc.Name,
                                    HeadlessSubsets(present.node, svc, e, ph.hostnames, 1),
                                    domainPath \o <<serviceSubdomain, svc.Namespace>>)]

\* generateRecordsForHeadlessService(e, svc): [err, cache]
generateRecordsForHeadlessService(c, e, svc) ==
    LET ph == getPodHostnamesFromAnnotation(e.Annotations)
    IN  IF ph.err # NoError THEN [err |-> ph.err, cache |-> c]
        ELSE [err |-> NoError,
              cache |-> setSubCache(c, svc.Name, HeadlessSubCache(e, svc, ph.hostnames),
                                    domainPath \o <<serviceSubdomain, svc.Namespace>>)]

(***************************************************************************)
(* Event handlers.  Each takes the cache (and the store it reads) and      *)
(* yields the cache after the handler.                                     *)
(***************************************************************************)
\* newHeadlessService(service): nothing is done while the endpoints store
\* holds no endpoints object under the service's key
newHeadlessService(c, eStore, service) ==
    LET key == MetaNamespaceKeyFunc(service)
    IN  IF key \notin DOMAIN eStore THEN c
        ELSE generateRecordsForHeadlessService(c, eStore[key], service).cache

\* a variant of newService that takes the records of the service away when
\* the cache holds a subtree for it, and adds them otherwise
newServiceToggling(c, eStore, service) ==
    IF getSubCache(c, domainPath \o <<serviceSubdomain, service.Namespace,
                                       service.Name>>).ok
    THEN deletePath(c, domainPath \o <<serviceSubdomain, service.Namespace, service.Name>>)
    ELSE IF ~IsServiceIPSet(service) THEN newHeadlessService(c, eStore, service)
    ELSE newPortalService(c, service)

\* newService(obj)
newService(c, eStore, service) ==
    IF ~IsServiceIPSet(service) THEN newHeadlessService(c, eStore, service)
    ELSE newPortalService(c, service)

\* a variant of removeService whose path leaves out the namespace
removeServiceByName(c, s) ==
    deletePath(c, domainPath \o <<serviceSubdomain, s.Name>>)

\* removeService(obj)
removeService(c, s) ==
    deletePath(c, domainPath \o <<serviceSubdomain, s.Namespace, s.Name>>)

\* a variant of updateService that rebuilds the records only when the
\* cluster IP changes
updateServiceIfIPChanged(c, eStore, oldObj, newObj) ==
    IF oldObj.ClusterIP = newObj.ClusterIP THEN c ELSE newService(c, eStore, newObj)

\* updateService(oldObj, newObj)
updateService(c, eStore, oldObj, newObj) == newService(c, eStore, newObj)

\* getServiceFromEndpoints(e): <<found, service>>
getServiceFromEndpoints(sStore, e) ==
    LET key == MetaNamespaceKeyFunc(e)
    IN  IF key \in DOMAIN sStore THEN <<TRUE, sStore[key]>> ELSE <<FALSE, Nil>>

\* a variant of addDNSUsingEndpoints that generates the records for every
\* service the store holds, portal or headless
addDNSUsingEndpointsOfAnyService(c, sStore, e) ==
    LET svc == getServiceFromEndpoints(sStore, e)
    IN  IF ~svc[1] THEN [err |-> NoError, cache |-> c]
        ELSE generateRecordsForHeadlessService(c, e, svc[2])

\* addDNSUsingEndpoints(e): [err, cache]
addDNSUsingEndpoints(c, sStore, e) ==
    LET svc == getServiceFromEndpoints(sStore, e)
    IN  IF ~svc[1] \/ IsServiceIPSet(svc[2]) THEN [err |-> NoError, cache |-> c]
        ELSE generateRecordsForHeadlessService(c, e, svc[2])

\* a variant of handleEndpointAdd that builds the records of the service
\* into a new cache
handleEndpointAddToNewCache(c, sStore, e) ==
    addDNSUsingEndpoints(NewTreeCache, sStore, e).cache

\* handleEndpointAdd(obj)
handleEndpointAdd(c, sStore, e) == addDNSUsingEndpoints(c, sStore, e).cache

(***************************************************************************)
(* The resolver.                                                           *)
(***************************************************************************)
\* a variant of isPodRecord that takes only a path whose last label decodes
\* to an IP for the path of a pod
isPodRecordOfIP(path) ==
    /\ Len(path) = Len(domainPath) + 3
    /\ path[Len(domainPath) + 1] = podSubdomain
    /\ \A i \in 1..Len(path) : path[i] # Wildcard
    /\ ParseIP(Replace(path[Len(path)], "-", "."))

\* isPodRecord(path)
isPodRecord(path) ==
    /\ Len(path) = Len(domainPath) + 3
    /\ path[Len(domainPath) + 1] = podSubdomain
    /\ \A i \in 1..Len(path) : path[i] # Wildcard

\* a variant of getPodIP that parses the label as it is written
getPodIPAsWritten(path) ==
    LET ip == path[Len(path)]
    IN  IF ParseIP(ip) THEN [err |-> NoError, ip |-> ip]
        ELSE [err |-> ErrInvalidIP, ip |-> <<>>]

\* getPodIP(path): [err, ip]
getPodIP(path) ==
    LET ipStr == path[Len(path)]
        ip    == Replace(ipStr, "-", ".")
    IN  IF ParseIP(ip) THEN [err |-> NoError, ip |-> ip]
        ELSE [err |-> ErrInvalidIP, ip |-> <<>>]

\* a variant of Records that answers an exact query as it answers the others
RecordsInWildcardMode(c, name, exact) ==
    LET trimmed  == TrimRight(name, ".")
        segments == Split(trimmed, ".")
        path     == reverseArray(segments)
    IN  IF isPodRecord(path)
        THEN LET r == getPodIP(path)
             IN  IF r.err = NoError
                 THEN [recs |-> <<getSkyMsg(r.ip, 0)[1]>>, err |-> NoError]
                 ELSE [recs |-> <<>>, err |-> r.err]
        ELSE LET retval == getValuesForPathWithWildcards(c, path)
             IN  IF Len(retval) = 0 THEN [recs |-> <<>>, err |-> ErrKeyNotFound]
                 ELSE [recs |-> retval, err |-> NoError]

\* Records(name, exact): [recs, err]
Records(c, name, exact) ==
    LET trimmed  == TrimRight(name, ".")
        segments == Split(trimmed, ".")
        path     == reverseArray(segments)
    IN  IF isPodRecord(path)
        THEN LET r == getPodIP(path)
             IN  IF r.err = NoError
                 THEN [recs |-> <<getSkyMsg(r.ip, 0)[1]>>, err |-> NoError]
                 ELSE [recs |-> <<>>, err |-> r.err]
        ELSE IF exact
        THEN LET key == path[Len(path)]
             IN  IF key = <<>> THEN [recs |-> <<>>, err |-> NoError]
                 ELSE LET record == getEntry(c, key, SubSeq(path, 1, Len(path) - 1))
                      IN  IF record[2] THEN [recs |-> <<record[1]>>, err |-> NoError]
                          ELSE [recs |-> <<>>, err |-> ErrKeyNotFound]
        ELSE LET retval == getValuesForPathWithWildcards(c, path)
             IN  IF Len(retval) = 0 THEN [recs |-> <<>>, err |-> ErrKeyNotFound]
                 ELSE [recs |-> retval, err |-> NoError]

(***************************************************************************)
(* The objects the control plane delivers.                                 *)
(***************************************************************************)
Prefix(seq, n) == SubSeq(seq, 1, Min(n, Len(seq)))

TCP == <<"T","C","P">>
UDP == <<"U","D","P">>

Port(name, number, protocol) == [Name |-> name, Port |-> number, Protocol |-> protocol]

http1 == <<"h","t","t","p","1">>
http2 == <<"h","t","t","p","2">>
https == <<"h","t","t","p","s">>
dns == <<"d","n","s">>
metrics == <<"m","e","t","r","i","c","s">>

ns1 == <<"d","e","f","a","u","l","t">>
ns2 == <<"k","u","b","e","-","s","y","s","t","e","m">>
n1  == <<"t","e","s","t","s","e","r","v","i","c","e">>
n2  == <<"o","t","h","e","r">>

Service(ns, name, clusterIP, ports) ==
    [Namespace |-> ns, Name |-> name, ClusterIP |-> clusterIP, Ports |-> ports]

\* port lists of portal services; a service takes the first p ports of one
\* of them, 0 <= p <= MaxPorts.  Port names are unique within a service and
\* only a single port may be unnamed.
ServicePortLists ==
    { <<Port(http1, 80, TCP), Port(dns, 53, UDP), Port(metrics, 9090, TCP)>>,
      <<Port(http2, 80, TCP), Port(dns, 53, UDP), Port(metrics, 9090, TCP)>>,
      <<Port(<<>>, 80, TCP)>> }

\* the one port of a headless service, as the API server defaults it
HeadlessPorts == <<Port(<<>>, 0, <<>>)>>

\* services of default/testservice: portal services with either cluster IP,
\* and headless ones (cluster IP "None" or unset)
ServicesOfFocus ==
    { Service(ns1, n1, ClusterIPPool[1], Prefix(pl, p)) :
          pl \in ServicePortLists, p \in 0..MaxPorts }
    \cup { Service(ns1, n1, ClusterIPPool[2], <<Port(http1, 80, TCP)>>),
           Service(ns1, n1, ClusterIPNone, HeadlessPorts),
           Service(ns1, n1, <<>>, HeadlessPorts) }

\* a service of the same name in another namespace and another service in
\* the same namespace (portal services)
ServicesOfOthers ==
    { Service(ns2, n1, ClusterIPPool[3], <<Port(http1, 8080, TCP)>>),
      Service(ns1, n2, ClusterIPPool[4], <<Port(<<>>, 80, TCP)>>) }

ServiceObjects == ServicesOfFocus \cup ServicesOfOthers

Address(ip, hostname) == [IP |-> ip, Hostname |-> hostname]

web == <<"w","e","b">>
db == <<"d","b">>

Subset(addresses, ports) == [Addresses |-> addresses, Ports |-> ports]

\* The largest endpoints objects: an endpoints object takes the first s
\* subsets of one of them, each cut to its first a addresses and its first
\* MaxPorts ports, 0 <= s <= MaxSubsets, 1 <= a <= MaxAddresses.
\*   - plain addresses; the second subset repeats an IP of the first
\*   - addresses with hostnames; two addresses of a subset share a hostname
SubsetLists ==
    { << Subset(<<Address(EndpointIPPool[1], <<>>), Address(EndpointIPPool[2], <<>>),
                  Address(EndpointIPPool[4], <<>>)>>,
                <<Port(http1, 80, TCP), Port(http2, 81, TCP), Port(<<>>, 82, TCP)>>),
         Subset(<<Address(EndpointIPPool[3], <<>>), Address(EndpointIPPool[1], <<>>),
                  Address(EndpointIPPool[2], <<>>)>>,
                <<Port(https, 443, TCP), Port(http1, 8080, TCP), Port(dns, 53, UDP)>>),
         Subset(<<Address(EndpointIPPool[4], <<>>)>>, <<Port(<<>>, 80, TCP)>>) >>,
      << Subset(<<Address(EndpointIPPool[1], web), Address(EndpointIPPool[2], web),
                  Address(EndpointIPPool[3], db)>>,
                <<Port(<<>>, 80, TCP), Port(http1, 81, UDP), Port(dns, 53, UDP)>>),
         Subset(<<Address(EndpointIPPool[3], db), Address(EndpointIPPool[4], <<>>),
                  Address(EndpointIPPool[1], <<>>)>>,
                <<Port(http1, 81, UDP), Port(dns, 53, UDP), Port(https, 443, TCP)>>),
         Subset(<<Address(EndpointIPPool[2], <<>>)>>, <<Port(<<>>, 80, TCP)>>) >> }

CutSubset(subset, a) ==
    Subset(Prefix(subset.Addresses, a), Prefix(subset.Ports, MaxPorts))

CutSubsets(subsets, s, a) ==
    [i \in 1..Min(s, Len(subsets)) |-> CutSubset(subsets[i], a)]

Endpoints(ns, name, annotations, subsets) ==
    [Namespace |-> ns, Name |-> name, Annotations |-> annotations, Subsets |-> subsets]

\* a JSON string
JSONStr(str) == <<Quote>> \o str \o <<Quote>>

\* a member of the pod-hostnames map: "ip":{"HostName":"hostname"}
JSONMember(ip, hostname) ==
    JSONStr(ip) \o <<":", "{">> \o JSONStr(<<"H","o","s","t","N","a","m","e">>)
    \o <<":">> \o JSONStr(hostname) \o <<"}">>

\* a pod-hostnames annotation naming the first endpoint IP db and giving the
\* second a name that is no DNS label, and one that is no JSON text
HostnamesAnnotation ==
    <<"{">> \o JSONMember(EndpointIPPool[1], db) \o <<",">>
    \o JSONMember(EndpointIPPool[2], <<"-", "b", "a", "d">>) \o <<"}">>

BrokenAnnotation == <<"{">> \o JSONMember(EndpointIPPool[1], db)

PlainSubsets ==
    CHOOSE sl \in SubsetLists : sl[1].Addresses[1] = Address(EndpointIPPool[1], <<>>)

\* endpoints objects of default/testservice: without annotations, and the
\* first subset of the plain addresses under either annotation
EndpointsObjects ==
    { Endpoints(ns1, n1, EmptyMap, CutSubsets(sl, s, a)) :
          sl \in SubsetLists, s \in 0..MaxSubsets, a \in 1..MaxAddresses }
    \cup { Endpoints(ns1, n1, MapPut(EmptyMap, PodHostnamesAnnotation, text),
                     CutSubsets(PlainSubsets, 1, MaxAddresses)) :
               text \in {HostnamesAnnotation, BrokenAnnotation} }

(***************************************************************************)
(* The state machine.  An informer updates its store and then calls the    *)
(* handler registered for the event; services and endpoints have one       *)
(* informer each.  No handler is registered for the deletion of endpoints. *)
(*   last: the last event delivered (old and new hold at most one object)  *)
(***************************************************************************)
Init ==
    /\ servicesStore = EmptyMap
    /\ endpointsStore = EmptyMap
    /\ cache = NewTreeCache
    /\ last = [op |-> "none", key |-> <<>>, old |-> <<>>, new |-> <<>>]
    /\ handlers = [stream \in {"services", "endpoints"} |-> [pc |-> "idle"]]
    /\ cacheLock = [writer |-> "none", readers |-> 0]
    /\ query = [pc |-> "idle"]
    /\ boot = [pc |-> "returned", served |-> TRUE]

\* a service is added: AddFunc = newService
ServiceAdd(s) ==
    LET key == MetaNamespaceKeyFunc(s)
    IN  /\ key \notin DOMAIN servicesStore
        /\ servicesStore' = MapPut(servicesStore, key, s)
        /\ cache' = newService(cache, endpointsStore, s)
        /\ last' = [op |-> "newService", key |-> key, old |-> <<>>, new |-> <<s>>]
        /\ UNCHANGED <<endpointsStore, goroutines>>

\* a service is updated (or resynchronised): UpdateFunc = updateService
ServiceUpdate(s) ==
    LET key == MetaNamespaceKeyFunc(s)
    IN  /\ key \in DOMAIN servicesStore
        /\ servicesStore' = MapPut(servicesStore, key, s)
        /\ cache' = updateService(cache, endpointsStore, servicesStore[key], s)
        /\ last' = [op |-> "updateService", key |-> key,
                    old |-> <<servicesStore[key]>>, new |-> <<s>>]
        /\ UNCHANGED <<endpointsStore, goroutines>>

\* a service is deleted: DeleteFunc = removeService
ServiceDelete(key) ==
    /\ key \in DOMAIN servicesStore
    /\ servicesStore' = MapDelete(servicesStore, key)
    /\ cache' = removeService(cache, servicesStore[key])
    /\ last' = [op |-> "removeService", key |-> key,
                old |-> <<servicesStore[key]>>, new |-> <<>>]
    /\ UNCHANGED <<endpointsStore, goroutines>>

\* an endpoints object is added: AddFunc = handleEndpointAdd
EndpointsAdd(e) ==
    LET key == MetaNamespaceKeyFunc(e)
    IN  /\ key \notin DOMAIN endpointsStore
        /\ endpointsStore' = MapPut(endpointsStore, key, e)
        /\ cache' = handleEndpointAdd(cache, servicesStore, e)
        /\ last' = [op |-> "handleEndpointAdd", key |-> key, old |-> <<>>, new |-> <<e>>]
        /\ UNCHANGED <<servicesStore, goroutines>>

\* an endpoints object is updated: UpdateFunc calls handleEndpointAdd(newObj)
EndpointsUpdate(e) ==
    LET key == MetaNamespaceKeyFunc(e)
    IN  /\ key \in DOMAIN endpointsStore
        /\ endpointsStore' = MapPut(endpointsStore, key, e)
        /\ cache' = handleEndpointAdd(cache, servicesStore, e)
        /\ last' = [op |-> "handleEndpointUpdate", key |-> key,
                    old |-> <<endpointsStore[key]>>, new |-> <<e>>]
        /\ UNCHANGED <<servicesStore, goroutines>>

\* a variant of EndpointsDelete with a handler that removes the records of
\* the service of the endpoints object
EndpointsDeleteRemoving(key) ==
    /\ key \in DOMAIN endpointsStore
    /\ endpointsStore' = MapDelete(endpointsStore, key)
    /\ cache' = deletePath(cache, domainPath \o <<serviceSubdomain,
                                                  endpointsStore[key].Namespace,
                                                  endpointsStore[key].Name>>)
    /\ last' = [op |-> "endpointsDelete", key |-> key,
                old |-> <<endpointsStore[key]>>, new |-> <<>>]
    /\ UNCHANGED <<servicesStore, goroutines>>

\* an endpoints object is deleted: the store drops it, no handler runs
EndpointsDelete(key) ==
    /\ key \in DOMAIN endpointsStore
    /\ endpointsStore' = MapDelete(endpointsStore, key)
    /\ last' = [op |-> "endpointsDelete", key |-> key,
                old |-> <<endpointsStore[key]>>, new |-> <<>>]
    /\ UNCHANGED <<servicesStore, cache, goroutines>>

Next ==
    \/ \E s \in ServiceObjects : ServiceAdd(s)
    \/ \E s \in ServiceObjects : ServiceUpdate(s)
    \/ \E key \in DOMAIN servicesStore : ServiceDelete(key)
    \/ \E e \in EndpointsObjects : EndpointsAdd(e)
    \/ \E e \in EndpointsObjects : EndpointsUpdate(e)
    \/ \E key \in DOMAIN endpointsStore : EndpointsDelete(key)

Spec == Init /\ [][Next]_vars

(***************************************************************************)
(* Query names.                                                            *)
(***************************************************************************)
Dot == <<".">>

\* n.ns.svc.<domain>
ServiceFQDN(ns, n) == Join(<<n, ns, serviceSubdomain, domain>>, Dot)

\* _<port name>._<protocol, lower case>.n.ns.svc.<domain>
SRVFQDN(ns, n, portName, protocol) ==
    Join(<< <<"_">> \o portName, <<"_">> \o ToLower(protocol), n, ns,
            serviceSubdomain, domain >>, Dot)

\* the equivalent queries of a service
QueryExact(ns, n) == ServiceFQDN(ns, n)
QueryAnyNamespace(ns, n) == Join(<<n, Wildcard, serviceSubdomain, domain>>, Dot)
QueryAnySubdomain(ns, n) == Join(<<n, ns, Wildcard, domain>>, Dot)
QueryAnyBoth(ns, n) == Join(<<n, Wildcard, Wildcard, domain>>, Dot)
QueryLeadingWildcard(ns, n) == Join(<<Wildcard, n, ns, serviceSubdomain, domain>>, Dot)

EquivalentQueries(ns, n) ==
    << QueryExact(ns, n), QueryAnyNamespace(ns, n), QueryAnySubdomain(ns, n),
       QueryAnyBoth(ns, n), QueryLeadingWildcard(ns, n) >>

\* the equivalent queries that name the namespace
NamespaceQueries(ns, n) ==
    << QueryExact(ns, n), QueryAnySubdomain(ns, n), QueryLeadingWildcard(ns, n) >>

\* the equivalent queries with a wildcard for the namespace
AnyNamespaceQueries(ns, n) == << QueryAnyNamespace(ns, n), QueryAnyBoth(ns, n) >>

Namespaces == {s.Namespace : s \in ServiceObjects}

\* the records of a wildcard-mode query
Lookup(name) == Records(cache, name, FALSE)

NotFound(r) == r.err = ErrKeyNotFound /\ Len(r.recs) = 0

\* r holds exactly the one record rec
IsSingle(r, rec) == r.err = NoError /\ r.recs = <<rec>>

Count(seq, x) == Cardinality({i \in 1..Len(seq) : seq[i] = x})

\* two record lists hold the same records, each as often
SameRecords(a, b) ==
    /\ Len(a) = Len(b)
    /\ \A x \in Range(a) \cup Range(b) : Count(a, x) = Count(b, x)

PortalServices == {key \in DOMAIN servicesStore : IsServiceIPSet(servicesStore[key])}

HeadlessServices == {key \in DOMAIN servicesStore : ~IsServiceIPSet(servicesStore[key])}

NamedPorts(ports) ==
    {i \in 1..Len(ports) : ports[i].Name # <<>> /\ ports[i].Protocol # <<>>}

ServiceEvents == {"newService", "updateService"}

EndpointsEvents == {"handleEndpointAdd", "handleEndpointUpdate"}

(***************************************************************************)
(* C1: whenever the last service event of a namespace/name was             *)
(* newService or updateService of a portal service with cluster IP v (the  *)
(* services store then holds that service), the wildcard-mode query of     *)
(* n.ns.svc.<domain> succeeds with exactly one record, whose host is v.    *)
(***************************************************************************)
C1_PortalFQDNReturnsClusterIP ==
    \A key \in PortalServices :
        LET s == servicesStore[key]
            r == Lookup(ServiceFQDN(s.Namespace, s.Name))
        IN  /\ r.err = NoError
            /\ Len(r.recs) = 1
            /\ r.recs[1].Host = s.ClusterIP

\* a portal service with two named ports has just been installed by an
\* update and its name resolves to its cluster IP
C1_Witness ==
    /\ last.op = "updateService"
    /\ last.key \in PortalServices
    /\ Cardinality(NamedPorts(servicesStore[last.key].Ports)) = 2
    /\ IsSingle(Lookup(ServiceFQDN(last.new[1].Namespace, last.new[1].Name)),
                SkyMsg(last.new[1].ClusterIP, 0))

(***************************************************************************)
(* C2 as stated: for every portal service in the cache the five equivalent *)
(* queries all return the single A record of that service, whatever other  *)
(* services are present.                                                   *)
(***************************************************************************)
C2_AsStated ==
    \A key \in PortalServices :
        LET s == servicesStore[key]
            q == EquivalentQueries(s.Namespace, s.Name)
        IN  \A i \in 1..Len(q) : IsSingle(Lookup(q[i]), SkyMsg(s.ClusterIP, 0))

\* the records of the services called n of all namespaces
RECURSIVE RecordsOfName(_, _)
RecordsOfName(nss, n) ==
    IF nss = <<>> THEN <<>>
    ELSE Lookup(ServiceFQDN(Head(nss), n)).recs \o RecordsOfName(Tail(nss), n)

(***************************************************************************)
(* C2, amended: for every portal service n of namespace ns in the cache    *)
(* the queries n.ns.svc.<domain>, n.ns.*.<domain> and *.n.ns.svc.<domain>  *)
(* return the single A record of that service; the queries                 *)
(* n.*.svc.<domain> and n.*.*.<domain> return the records of the services  *)
(* called n of every namespace, which is that single record when no other  *)
(* namespace holds records of a service called n.                          *)
(***************************************************************************)
C2_EquivalentQueries ==
    \A key \in PortalServices :
        LET s  == servicesStore[key]
            q  == NamespaceQueries(s.Namespace, s.Name)
            qa == AnyNamespaceQueries(s.Namespace, s.Name)
            all == RecordsOfName(SetToSeq(Namespaces), s.Name)
        IN  /\ \A i \in 1..Len(q) : IsSingle(Lookup(q[i]), SkyMsg(s.ClusterIP, 0))
            /\ \A i \in 1..Len(qa) :
                   /\ Lookup(qa[i]).err = NoError
                   /\ SameRecords(Lookup(qa[i]).recs, all)
                   /\ (Len(all) = 1 => IsSingle(Lookup(qa[i]), SkyMsg(s.ClusterIP, 0)))

\* two portal services of the same name live in two namespaces: the queries
\* naming the namespace return one record, the others both
C2_Witness ==
    \E k1 \in PortalServices, k2 \in PortalServices :
        /\ servicesStore[k1].Name = servicesStore[k2].Name
        /\ servicesStore[k1].Namespace # servicesStore[k2].Namespace
        /\ IsSingle(Lookup(QueryLeadingWildcard(servicesStore[k1].Namespace,
                                                servicesStore[k1].Name)),
                    SkyMsg(servicesStore[k1].ClusterIP, 0))
        /\ Len(Lookup(QueryAnyNamespace(servicesStore[k1].Namespace,
                                        servicesStore[k1].Name)).recs) = 2

\* the namespace/name pairs of the services the control plane knows of
ServiceNames == {<<s.Namespace, s.Name>> : s \in ServiceObjects}

\* the namespace/name pairs with no service in the services store
AbsentServices ==
    {sn \in ServiceNames :
        \A key \in DOMAIN servicesStore :
            <<servicesStore[key].Namespace, servicesStore[key].Name>> # sn}

(***************************************************************************)
(* C3 as stated: when the last event was removeService(s), each of the     *)
(* five equivalent queries of s fails with not-found and returns no        *)
(* records.                                                                *)
(***************************************************************************)
C3_AsStated ==
    last.op = "removeService" =>
        LET s == last.old[1]
            q == EquivalentQueries(s.Namespace, s.Name)
        IN  \A i \in 1..Len(q) : NotFound(Lookup(q[i]))

(***************************************************************************)
(* C3, amended: for a service n of namespace ns that is not in the         *)
(* services store (it was removed and not added again, or never added),    *)
(* the queries n.ns.svc.<domain>, n.ns.*.<domain> and *.n.ns.svc.<domain>  *)
(* fail with not-found and return no records; the queries n.*.svc.<domain> *)
(* and n.*.*.<domain> return the records of the services called n of the   *)
(* other namespaces, and fail with not-found exactly when there are none.  *)
(***************************************************************************)
C3_RemovedServiceNotFound ==
    \A sn \in AbsentServices :
        LET q  == NamespaceQueries(sn[1], sn[2])
            qa == AnyNamespaceQueries(sn[1], sn[2])
            others == RecordsOfName(SetToSeq(Namespaces \ {sn[1]}), sn[2])
        IN  /\ \A i \in 1..Len(q) : NotFound(Lookup(q[i]))
            /\ \A i \in 1..Len(qa) :
                   IF others = <<>> THEN NotFound(Lookup(qa[i]))
                   ELSE /\ Lookup(qa[i]).err = NoError
                        /\ SameRecords(Lookup(qa[i]).recs, others)

\* a portal service with a named port has just been removed while a service
\* of the same name lives in another namespace: its own name is not found,
\* the namespace wildcard finds the other service
C3_Witness ==
    /\ last.op = "removeService"
    /\ IsServiceIPSet(last.old[1])
    /\ NamedPorts(last.old[1].Ports) # {}
    /\ <<last.old[1].Namespace, last.old[1].Name>> \in AbsentServices
    /\ NotFound(Lookup(QueryExact(last.old[1].Namespace, last.old[1].Name)))
    /\ NotFound(Lookup(QueryLeadingWildcard(last.old[1].Namespace, last.old[1].Name)))
    /\ Len(Lookup(QueryAnyNamespace(last.old[1].Namespace, last.old[1].Name)).recs) = 1

(***************************************************************************)
(* C4: for every portal service n of namespace ns in the cache and every   *)
(* port p of it with a name and a protocol, the wildcard-mode query of     *)
(* _<p.name>._<protocol in lower case>.n.ns.svc.<domain> returns exactly   *)
(* one record, whose host is n.ns.svc.<domain> and whose port is p.port.   *)
(***************************************************************************)
C4_PortalSRVRecord ==
    \A key \in PortalServices :
        LET s == servicesStore[key]
        IN  \A i \in NamedPorts(s.Ports) :
                LET r == Lookup(SRVFQDN(s.Namespace, s.Name, s.Ports[i].Name,
                                        s.Ports[i].Protocol))
                IN  /\ r.err = NoError
                    /\ Len(r.recs) = 1
                    /\ r.recs[1].Host = ServiceFQDN(s.Namespace, s.Name)
                    /\ r.recs[1].Port = s.Ports[i].Port

\* a portal service with a TCP port and a UDP port, both named, is in the
\* cache and the SRV query of the UDP port returns its record
C4_Witness ==
    \E key \in PortalServices :
        LET s == servicesStore[key]
        IN  /\ Cardinality(NamedPorts(s.Ports)) = 2
            /\ \E i \in NamedPorts(s.Ports) :
                   /\ s.Ports[i].Protocol = UDP
                   /\ IsSingle(Lookup(SRVFQDN(s.Namespace, s.Name, s.Ports[i].Name, UDP)),
                               SkyMsg(ServiceFQDN(s.Namespace, s.Name), s.Ports[i].Port))

(***************************************************************************)
(* What the claims on headless services speak of.                          *)
(***************************************************************************)
\* the addresses of an endpoints object, subset after subset
AddressesOf(e) == Flatten([i \in 1..Len(e.Subsets) |-> e.Subsets[i].Addresses])

\* the annotation of the endpoints object is absent or decodes
ValidAnnotation(e) == getPodHostnamesFromAnnotation(e.Annotations).err = NoError

\* the label of an address of the endpoints object
LabelOf(e, a) == EndpointName(a, getPodHostnamesFromAnnotation(e.Annotations).hostnames)

LabelsOf(e) == {LabelOf(e, AddressesOf(e)[i]) : i \in 1..Len(AddressesOf(e))}

IPsOf(e) == {AddressesOf(e)[i].IP : i \in 1..Len(AddressesOf(e))}

\* the IP of the last address of the endpoints object with the label
LastIPOf(e, l) ==
    LET addrs == AddressesOf(e)
        last_i == CHOOSE i \in 1..Len(addrs) :
                      /\ LabelOf(e, addrs[i]) = l
                      /\ \A j \in 1..Len(addrs) : LabelOf(e, addrs[j]) = l => j <= i
    IN  addrs[last_i].IP

\* one A record for each label, that of the last address with the label
ARecordsOf(e) ==
    LET ls == SetToSeq(LabelsOf(e))
    IN  [i \in 1..Len(ls) |-> SkyMsg(LastIPOf(e, ls[i]), 0)]

\* the headless services of the store whose endpoints object is in the
\* endpoints store and has a valid annotation: their records were generated
\* from that endpoints object
GeneratedHeadlessServices ==
    {key \in HeadlessServices :
        key \in DOMAIN endpointsStore /\ ValidAnnotation(endpointsStore[key])}

Hosts(recs) == {recs[i].Host : i \in 1..Len(recs)}

(***************************************************************************)
(* C5 as stated: for every headless service whose records were generated   *)
(* from an endpoints object E, the query of n.ns.svc.<domain> returns as   *)
(* many records as E has addresses over all subsets, and the hosts of the  *)
(* records are exactly the endpoint IPs of E.                              *)
(***************************************************************************)
C5_AsStated ==
    \A key \in GeneratedHeadlessServices :
        LET s == servicesStore[key]
            e == endpointsStore[key]
            r == Lookup(ServiceFQDN(s.Namespace, s.Name))
        IN  /\ Len(r.recs) = Len(AddressesOf(e))
            /\ Hosts(r.recs) = IPsOf(e)

(***************************************************************************)
(* C5, amended: for every headless service whose records were generated    *)
(* from an endpoints object E, the query of n.ns.svc.<domain> returns one   *)
(* record for each distinct endpoint label of E (the hostname of the        *)
(* address, else its valid annotated hostname, else the hash label of its   *)
(* IP), whose host is the IP of the last address of E with that label; it   *)
(* fails with not-found when E has no address.  When the addresses of E     *)
(* have pairwise distinct labels there are as many records as addresses     *)
(* and their hosts are exactly the endpoint IPs of E.                       *)
(***************************************************************************)
C5_HeadlessARecords ==
    \A key \in GeneratedHeadlessServices :
        LET s == servicesStore[key]
            e == endpointsStore[key]
            r == Lookup(ServiceFQDN(s.Namespace, s.Name))
        IN  /\ r.err = IF LabelsOf(e) = {} THEN ErrKeyNotFound ELSE NoError
            /\ Len(r.recs) = Cardinality(LabelsOf(e))
            /\ SameRecords(r.recs, ARecordsOf(e))
            /\ Hosts(r.recs) \subseteq IPsOf(e)
            /\ Cardinality(LabelsOf(e)) = Len(AddressesOf(e)) =>
                   /\ Len(r.recs) = Len(AddressesOf(e))
                   /\ Hosts(r.recs) = IPsOf(e)

\* an endpoints update has just regenerated the records of a headless
\* service from two subsets that share an IP: four addresses, three records
C5_Witness ==
    /\ last.op = "handleEndpointUpdate"
    /\ last.key \in GeneratedHeadlessServices
    /\ Len(last.new[1].Subsets) = 2
    /\ Len(AddressesOf(last.new[1])) = 4
    /\ Len(Lookup(ServiceFQDN(last.new[1].Namespace, last.new[1].Name)).recs) = 3

\* the host name of an endpoint label of a service
EndpointFQDN(ns, n, l) == Join(<<l, n, ns, serviceSubdomain, domain>>, Dot)

\* the name/protocol pairs of the named ports of the endpoints object
SRVNamesOf(e) ==
    UNION {{<<e.Subsets[i].Ports[k].Name, e.Subsets[i].Ports[k].Protocol>> :
               k \in NamedPorts(e.Subsets[i].Ports)} : i \in 1..Len(e.Subsets)}

\* the ports of subset i with the name and protocol
PortsNamed(e, i, pn) ==
    {k \in 1..Len(e.Subsets[i].Ports) :
        e.Subsets[i].Ports[k].Name = pn[1] /\ e.Subsets[i].Ports[k].Protocol = pn[2]}

\* the subsets carrying a port of the name and protocol
Carriers(e, pn) == {i \in 1..Len(e.Subsets) : PortsNamed(e, i, pn) # {}}

\* the addresses of the carrying subsets
CarrierAddresses(e, pn) ==
    Flatten([i \in 1..Len(e.Subsets) |->
                IF i \in Carriers(e, pn) THEN e.Subsets[i].Addresses ELSE <<>>])

CarrierLabels(e, pn) ==
    {LabelOf(e, CarrierAddresses(e, pn)[j]) : j \in 1..Len(CarrierAddresses(e, pn))}

Max(S) == CHOOSE x \in S : \A y \in S : y <= x

\* the port number of the SRV record of a label: that of the last port of
\* the name in the last carrying subset with an address of the label
SRVPortOf(e, pn, l) ==
    LET i == Max({c \in Carriers(e, pn) :
                     \E j \in 1..Len(e.Subsets[c].Addresses) :
                         LabelOf(e, e.Subsets[c].Addresses[j]) = l})
    IN  e.Subsets[i].Ports[Max(PortsNamed(e, i, pn))].Port

\* one SRV record for each label of the carrying subsets
SRVRecordsOf(s, e, pn) ==
    LET ls == SetToSeq(CarrierLabels(e, pn))
    IN  [i \in 1..Len(ls) |->
            SkyMsg(EndpointFQDN(s.Namespace, s.Name, ls[i]), SRVPortOf(e, pn, ls[i]))]

(***************************************************************************)
(* C6 as stated: for a headless service generated from E and every named   *)
(* port p (with a protocol) of a subset S of E, the SRV query of p returns *)
(* as many records as the subsets carrying that port have addresses, every *)
(* record has port p.port, and the host of every record resolves to        *)
(* exactly one A record, whose IP is an address of S.                      *)
(***************************************************************************)
C6_AsStated ==
    \A key \in GeneratedHeadlessServices :
        LET s == servicesStore[key]
            e == endpointsStore[key]
        IN  \A i \in 1..Len(e.Subsets) : \A k \in NamedPorts(e.Subsets[i].Ports) :
                LET p == e.Subsets[i].Ports[k]
                    r == Lookup(SRVFQDN(s.Namespace, s.Name, p.Name, p.Protocol))
                IN  /\ Len(r.recs) = Len(CarrierAddresses(e, <<p.Name, p.Protocol>>))
                    /\ \A x \in 1..Len(r.recs) :
                           /\ r.recs[x].Port = p.Port
                           /\ Len(Lookup(r.recs[x].Host).recs) = 1
                           /\ \E j \in 1..Len(e.Subsets[i].Addresses) :
                                  Lookup(r.recs[x].Host).recs[1].Host
                                      = e.Subsets[i].Addresses[j].IP

(***************************************************************************)
(* C6, amended: for a headless service generated from E and every named    *)
(* port p (with a protocol) of a subset of E, the SRV query of p returns   *)
(* one record for each distinct endpoint label among the addresses of the  *)
(* subsets carrying a port of that name and protocol; the record of a      *)
(* label has the port number of the last carrying subset with an address   *)
(* of that label, and its host <label>.n.ns.svc.<domain> resolves to       *)
(* exactly one A record, whose IP is that of the last address of E with    *)
(* that label.  When those addresses have pairwise distinct labels there   *)
(* are as many records as addresses, and when a single subset carries the  *)
(* port every record has port p.port.                                      *)
(***************************************************************************)
C6_HeadlessSRVRecords ==
    \A key \in GeneratedHeadlessServices :
        LET s == servicesStore[key]
            e == endpointsStore[key]
        IN  \A pn \in SRVNamesOf(e) :
                LET r == Lookup(SRVFQDN(s.Namespace, s.Name, pn[1], pn[2]))
                IN  /\ r.err = NoError
                    /\ SameRecords(r.recs, SRVRecordsOf(s, e, pn))
                    /\ \A l \in CarrierLabels(e, pn) :
                           IsSingle(Lookup(EndpointFQDN(s.Namespace, s.Name, l)),
                                    SkyMsg(LastIPOf(e, l), 0))
                    /\ Cardinality(CarrierLabels(e, pn)) = Len(CarrierAddresses(e, pn))
                           => Len(r.recs) = Len(CarrierAddresses(e, pn))
                    /\ \A i \in Carriers(e, pn) :
                           Carriers(e, pn) = {i} =>
                               \A x \in 1..Len(r.recs), k \in PortsNamed(e, i, pn) :
                                   r.recs[x].Port = e.Subsets[i].Ports[k].Port

\* a headless service was generated from two subsets that carry a port of
\* the same name with different numbers: the SRV query returns records of
\* both numbers
C6_Witness ==
    \E key \in GeneratedHeadlessServices :
        LET s == servicesStore[key]
            r == Lookup(SRVFQDN(s.Namespace, s.Name, http1, TCP))
        IN  /\ Cardinality(Carriers(endpointsStore[key], <<http1, TCP>>)) = 2
            /\ Len(r.recs) = 3
            /\ Cardinality({r.recs[x].Port : x \in 1..Len(r.recs)}) = 2

\* new is old with the name of port i changed, both portal services
PortRenamed(old, new, i) ==
    /\ IsServiceIPSet(old) /\ IsServiceIPSet(new)
    /\ Len(old.Ports) = Len(new.Ports)
    /\ i \in 1..Len(new.Ports)
    /\ new.Ports[i].Name # <<>> /\ new.Ports[i].Protocol # <<>>
    /\ new.Ports[i].Name # old.Ports[i].Name
    /\ new = [old EXCEPT !.Ports[i].Name = new.Ports[i].Name]

(***************************************************************************)
(* C7: after updateService(old, new) of a portal service, where new is old *)
(* with the name of one port changed, the SRV query of the new port name   *)
(* returns the one SRV record of the port, the SRV query of the old port   *)
(* name fails with not-found, and the query of n.ns.svc.<domain> returns   *)
(* the A record of the service.                                            *)
(***************************************************************************)
C7_PortRenameReplaces ==
    last.op = "updateService" =>
        LET old == last.old[1]
            new == last.new[1]
        IN  \A i \in 1..Len(new.Ports) :
                PortRenamed(old, new, i) =>
                    /\ IsSingle(Lookup(SRVFQDN(new.Namespace, new.Name, new.Ports[i].Name,
                                               new.Ports[i].Protocol)),
                                SkyMsg(ServiceFQDN(new.Namespace, new.Name), new.Ports[i].Port))
                    /\ NotFound(Lookup(SRVFQDN(old.Namespace, old.Name, old.Ports[i].Name,
                                               old.Ports[i].Protocol)))
                    /\ IsSingle(Lookup(ServiceFQDN(new.Namespace, new.Name)),
                                SkyMsg(new.ClusterIP, 0))

\* a portal service with two named ports has just been updated, its first
\* port renamed from http1 to http2: the new SRV name resolves, the old
\* one does not
C7_Witness ==
    /\ last.op = "updateService"
    /\ PortRenamed(last.old[1], last.new[1], 1)
    /\ Len(last.new[1].Ports) = 2
    /\ last.old[1].Ports[1].Name = http1
    /\ last.new[1].Ports[1].Name = http2
    /\ Len(Lookup(SRVFQDN(ns1, n1, http2, TCP)).recs) = 1
    /\ NotFound(Lookup(SRVFQDN(ns1, n1, http1, TCP)))

(***************************************************************************)
(* C8 as stated: after handleEndpointAdd with endpoints E for a headless   *)
(* service, the query of n.ns.svc.<domain> returns exactly the A records   *)
(* of E, and fails with not-found when E has zero subsets.                 *)
(***************************************************************************)
C8_AsStated ==
    (last.op \in EndpointsEvents /\ last.key \in HeadlessServices) =>
        LET e == last.new[1]
            r == Lookup(ServiceFQDN(e.Namespace, e.Name))
        IN  /\ SameRecords(r.recs, ARecordsOf(e))
            /\ Len(e.Subsets) = 0 => NotFound(r)

(***************************************************************************)
(* C8, amended: adding a headless service while the endpoints store holds  *)
(* no endpoints object for it leaves the query of n.ns.svc.<domain>        *)
(* failing with not-found; a handleEndpointAdd with endpoints E whose      *)
(* pod-hostnames annotation is absent or valid JSON makes the query return *)
(* exactly the A records of E (one for each endpoint label), whatever the  *)
(* records were before, and fail with not-found when E has zero subsets.   *)
(***************************************************************************)
C8_HeadlessLifecycle ==
    /\ (/\ last.op = "newService"
        /\ ~IsServiceIPSet(last.new[1])
        /\ last.key \notin DOMAIN endpointsStore)
       => NotFound(Lookup(ServiceFQDN(last.new[1].Namespace, last.new[1].Name)))
    /\ (/\ last.op \in EndpointsEvents
        /\ last.key \in HeadlessServices
        /\ ValidAnnotation(last.new[1]))
       => LET e == last.new[1]
              r == Lookup(ServiceFQDN(e.Namespace, e.Name))
          IN  /\ r.err = IF LabelsOf(e) = {} THEN ErrKeyNotFound ELSE NoError
              /\ SameRecords(r.recs, ARecordsOf(e))
              /\ Len(e.Subsets) = 0 => NotFound(r)

\* the endpoints of a headless service have just been updated from two
\* subsets to none: its name, found before, is not found any more
C8_Witness ==
    /\ last.op = "handleEndpointUpdate"
    /\ last.key \in HeadlessServices
    /\ Len(last.old[1].Subsets) = 2
    /\ ValidAnnotation(last.old[1])
    /\ Len(last.new[1].Subsets) = 0
    /\ NotFound(Lookup(ServiceFQDN(last.new[1].Namespace, last.new[1].Name)))

\* the name of the pod with the IP in the namespace
DashEncoded(ip) == Replace(ip, ".", "-")

PodFQDN(ip, ns) == Join(<<DashEncoded(ip), ns, podSubdomain, domain>>, Dot)

\* IPv4 addresses and namespace labels of pod queries
PodIPs == {ClusterIPPool[1], EndpointIPPool[1]} \cup Range(PodIPPool)

PodNamespaces == {ns1, ns2, n2, podSubdomain}

(***************************************************************************)
(* C9: for every IPv4 address ip and namespace label ns, in every cache    *)
(* state and for both values of exact, the query of                        *)
(* <ip with dashes>.ns.pod.<domain> returns exactly one record with host   *)
(* ip and port 0, and no error.                                            *)
(***************************************************************************)
C9_PodRoundTrip ==
    \A ip \in PodIPs, ns \in PodNamespaces, exact \in BOOLEAN :
        LET r == Records(cache, PodFQDN(ip, ns), exact)
        IN  /\ r.err = NoError
            /\ Len(r.recs) = 1
            /\ r.recs[1].Host = ip
            /\ r.recs[1].Port = 0

\* the cache holds the records of a portal service and of a headless one
\* with endpoints, none of them for a pod name, and the pod name of an
\* endpoint IP resolves to that IP in both modes
C9_Witness ==
    /\ PortalServices # {}
    /\ \E key \in GeneratedHeadlessServices :
           EndpointIPPool[1] \in IPsOf(endpointsStore[key])
    /\ ~getSubCache(cache, domainPath \o <<podSubdomain>>).ok
    /\ Records(cache, PodFQDN(EndpointIPPool[1], ns1), TRUE).recs
           = <<SkyMsg(EndpointIPPool[1], 0)>>
    /\ Records(cache, PodFQDN(EndpointIPPool[1], ns1), FALSE).recs
           = <<SkyMsg(EndpointIPPool[1], 0)>>

\* the records of the portal form of a service that the queries of its
\* name and of its named ports return
PortalRecordsReturned(s) ==
    {x \in Range(Lookup(ServiceFQDN(s.Namespace, s.Name)).recs) :
        x = SkyMsg(s.ClusterIP, 0)}
    \cup UNION {{x \in Range(Lookup(SRVFQDN(s.Namespace, s.Name, s.Ports[k].Name,
                                              s.Ports[k].Protocol)).recs) :
                    x = SkyMsg(ServiceFQDN(s.Namespace, s.Name), s.Ports[k].Port)} :
                k \in NamedPorts(s.Ports)}

(***************************************************************************)
(* C10 as stated: after updateService(old, new) from a portal service to a *)
(* headless one, whether or not the endpoints store holds an endpoints     *)
(* object for it, no record of the portal form (its cluster-IP A record,   *)
(* its SRV records) is returned any more; after an update from a headless  *)
(* service to a portal one, the service's subtree holds the portal records *)
(* and nothing else.                                                       *)
(***************************************************************************)
C10_AsStated ==
    last.op = "updateService" =>
        LET old == last.old[1]
            new == last.new[1]
        IN  /\ (IsServiceIPSet(old) /\ ~IsServiceIPSet(new))
                   => PortalRecordsReturned(old) = {}
            /\ (~IsServiceIPSet(old) /\ IsServiceIPSet(new))
                   => getSubCache(cache, domainPath \o <<serviceSubdomain, new.Namespace,
                                                         new.Name>>)
                          = [ok |-> TRUE, node |-> PortalSubCache(new)]

(***************************************************************************)
(* C11: in every state of the cache and the stores, and for every service  *)
(* object s, newService(s) applied twice in a row leaves the cache that    *)
(* one application leaves; likewise handleEndpointAdd(e) for every         *)
(* endpoints object e.                                                     *)
(***************************************************************************)
C11_AddIdempotent ==
    /\ \A s \in ServiceObjects :
           newService(newService(cache, endpointsStore, s), endpointsStore, s)
               = newService(cache, endpointsStore, s)
    /\ \A e \in EndpointsObjects :
           handleEndpointAdd(handleEndpointAdd(cache, servicesStore, e), servicesStore, e)
               = handleEndpointAdd(cache, servicesStore, e)

\* a headless service is in the store and the cache holds records; adding a
\* portal service and adding an endpoints object would each change it, and change
\* nothing when applied again
C11_Witness ==
    /\ HeadlessServices # {}
    /\ cache # NewTreeCache
    /\ \E s \in ServiceObjects :
           /\ IsServiceIPSet(s)
           /\ newService(cache, endpointsStore, s) # cache
           /\ newService(newService(cache, endpointsStore, s), endpointsStore, s)
                  = newService(cache, endpointsStore, s)
    /\ \E e \in EndpointsObjects :
           /\ handleEndpointAdd(cache, servicesStore, e) # cache
           /\ handleEndpointAdd(handleEndpointAdd(cache, servicesStore, e),
                                 servicesStore, e)
                  = handleEndpointAdd(cache, servicesStore, e)


(***************************************************************************)
(* The goroutines.  Start launches one controller for each informer; a     *)
(* controller updates its store and runs the handlers of its stream one    *)
(* after another, and queries arrive in the goroutines of the DNS server.  *)
(* A handler reads the store of the other stream and builds its subcache   *)
(* before it takes cacheLock, replaces the subtree holding the lock and    *)
(* releases it on return.                                                  *)
(*   handlers[stream]: the handler the controller of the stream is in      *)
(*       pc: "idle", "called", "built" (about to lock), "locked",          *)
(*           "swapped" (the cache is written, about to unlock)             *)
(*       svc: the service whose subtree is written; sub: the subcache built*)
(*   cacheLock: the goroutine holding the write lock and the read holders  *)
(*   query: a Records call for a name of a service                         *)
(*       pc: "idle", "locked" (read lock held), "read" (result in hand)    *)
(*       raced: the cache was written while the query held its read lock   *)
(***************************************************************************)
Streams == {"services", "endpoints"}

Idle == [pc |-> "idle", op |-> "none", obj |-> <<>>, svc |-> <<>>, sub |-> NewTreeCache]

Called(op, obj) ==
    [pc |-> "called", op |-> op, obj |-> <<obj>>, svc |-> <<>>, sub |-> NewTreeCache]

\* the catalogue of the goroutines: a portal and a headless service of
\* default/testservice, endpoints of one subset without and with a
\* (well-formed or broken) annotation, and the name of the service
ConcServices ==
    { Service(ns1, n1, ClusterIPPool[1], <<Port(http1, 80, TCP)>>),
      Service(ns1, n1, ClusterIPNone, HeadlessPorts) }

ConcEndpoints ==
    { e \in EndpointsObjects :
          /\ Len(e.Subsets) = 1
          /\ e.Subsets[1].Addresses[1] = Address(EndpointIPPool[1], <<>>)
          /\ PodHostnamesAnnotation \in DOMAIN e.Annotations
                 => e.Annotations[PodHostnamesAnnotation] = BrokenAnnotation }

ConcQueries == { ServiceFQDN(ns1, n1) }

\* the result of a read of the tree that overlaps a write of it
Torn == [recs |-> <<>>, err |-> "data race"]

\* cacheLock.Lock() returns when no goroutine holds the lock; a variant that
\* does not wait for the readers
CanLockAmongReaders(l) == l.writer = "none"

CanLock(l) == l.writer = "none" /\ l.readers = 0

\* cacheLock.RLock() returns when no goroutine holds the write lock
CanRLock(l) == l.writer = "none"

\* what generateRecordsForHeadlessService has in hand before it locks
BuiltHeadless(h, e, svc) ==
    LET ph == getPodHostnamesFromAnnotation(e.Annotations)
    IN  IF ph.err # NoError THEN Idle
        ELSE [h EXCEPT !.pc = "built", !.svc = <<svc>>,
                       !.sub = HeadlessSubCache(e, svc, ph.hostnames)]

\* newService up to the lock: newPortalService builds the subcache of a
\* portal service; newHeadlessService reads the endpoints store
BuiltByService(h, eStore, service) ==
    IF IsServiceIPSet(service)
    THEN [h EXCEPT !.pc = "built", !.svc = <<service>>, !.sub = PortalSubCache(service)]
    ELSE LET key == MetaNamespaceKeyFunc(service)
         IN  IF key \notin DOMAIN eStore THEN Idle
             ELSE BuiltHeadless(h, eStore[key], service)

\* addDNSUsingEndpoints up to the lock: it reads the services store
BuiltByEndpoints(h, sStore, e) ==
    LET svc == getServiceFromEndpoints(sStore, e)
    IN  IF ~svc[1] \/ IsServiceIPSet(svc[2]) THEN Idle
        ELSE BuiltHeadless(h, e, svc[2])

ConcInit ==
    /\ servicesStore = EmptyMap
    /\ endpointsStore = EmptyMap
    /\ cache = NewTreeCache
    /\ last = [op |-> "none", key |-> <<>>, old |-> <<>>, new |-> <<>>]
    /\ handlers = [stream \in Streams |-> Idle]
    /\ cacheLock = [writer |-> "none", readers |-> 0]
    /\ query = [pc |-> "idle", name |-> <<>>, raced |-> FALSE, result |-> <<>>]
    /\ boot = [pc |-> "returned", served |-> TRUE]

\* the services controller stores an added service and calls newService
ConcServiceAdd(s) ==
    LET key == MetaNamespaceKeyFunc(s)
    IN  /\ handlers["services"].pc = "idle"
        /\ key \notin DOMAIN servicesStore
        /\ servicesStore' = MapPut(servicesStore, key, s)
        /\ handlers' = [handlers EXCEPT !["services"] = Called("newService", s)]
        /\ UNCHANGED <<endpointsStore, cache, last, cacheLock, query, boot>>

\* the services controller stores an updated service and calls updateService
ConcServiceUpdate(s) ==
    LET key == MetaNamespaceKeyFunc(s)
    IN  /\ handlers["services"].pc = "idle"
        /\ key \in DOMAIN servicesStore
        /\ servicesStore' = MapPut(servicesStore, key, s)
        /\ handlers' = [handlers EXCEPT !["services"] = Called("updateService", s)]
        /\ UNCHANGED <<endpointsStore, cache, last, cacheLock, query, boot>>

\* the services controller takes a deleted service out of the store and
\* calls removeService, which builds nothing before it locks
ConcServiceDelete(key) ==
    /\ handlers["services"].pc = "idle"
    /\ key \in DOMAIN servicesStore
    /\ servicesStore' = MapDelete(servicesStore, key)
    /\ handlers' = [handlers EXCEPT !["services"] =
                        [pc |-> "built", op |-> "removeService",
                         obj |-> <<servicesStore[key]>>, svc |-> <<servicesStore[key]>>,
                         sub |-> NewTreeCache]]
    /\ UNCHANGED <<endpointsStore, cache, last, cacheLock, query, boot>>

\* the endpoints controller stores an added endpoints object and calls
\* handleEndpointAdd
ConcEndpointsAdd(e) ==
    LET key == MetaNamespaceKeyFunc(e)
    IN  /\ handlers["endpoints"].pc = "idle"
        /\ key \notin DOMAIN endpointsStore
        /\ endpointsStore' = MapPut(endpointsStore, key, e)
        /\ handlers' = [handlers EXCEPT !["endpoints"] = Called("handleEndpointAdd", e)]
        /\ UNCHANGED <<servicesStore, cache, last, cacheLock, query, boot>>

\* the endpoints controller stores an updated endpoints object and calls
\* handleEndpointAdd with the new object
ConcEndpointsUpdate(e) ==
    LET key == MetaNamespaceKeyFunc(e)
    IN  /\ handlers["endpoints"].pc = "idle"
        /\ key \in DOMAIN endpointsStore
        /\ endpointsStore' = MapPut(endpointsStore, key, e)
        /\ handlers' = [handlers EXCEPT !["endpoints"] = Called("handleEndpointAdd", e)]
        /\ UNCHANGED <<servicesStore, cache, last, cacheLock, query, boot>>

\* the endpoints controller takes a deleted endpoints object out of the
\* store; no handler is registered
ConcEndpointsDelete(key) ==
    /\ handlers["endpoints"].pc = "idle"
    /\ key \in DOMAIN endpointsStore
    /\ endpointsStore' = MapDelete(endpointsStore, key)
    /\ UNCHANGED <<servicesStore, cache, last, handlers, cacheLock, query, boot>>

\* newService or updateService reads the endpoints store and builds
ServiceBuild ==
    /\ handlers["services"].pc = "called"
    /\ handlers' = [handlers EXCEPT !["services"] =
                        BuiltByService(@, endpointsStore, @.obj[1])]
    /\ UNCHANGED <<servicesStore, endpointsStore, cache, last, cacheLock, query, boot>>

\* handleEndpointAdd reads the services store and builds
EndpointsBuild ==
    /\ handlers["endpoints"].pc = "called"
    /\ handlers' = [handlers EXCEPT !["endpoints"] =
                        BuiltByEndpoints(@, servicesStore, @.obj[1])]
    /\ UNCHANGED <<servicesStore, endpointsStore, cache, last, cacheLock, query, boot>>

\* kd.cacheLock.Lock()
Lock(stream) ==
    /\ handlers[stream].pc = "built"
    /\ CanLock(cacheLock)
    /\ cacheLock' = [cacheLock EXCEPT !.writer = stream]
    /\ handlers' = [handlers EXCEPT ![stream].pc = "locked"]
    /\ UNCHANGED <<servicesStore, endpointsStore, cache, last, query, boot>>

\* kd.cache.setSubCache(...) of newPortalService and of
\* generateRecordsForHeadlessService, kd.cache.deletePath(...) of removeService
Swap(stream) ==
    LET h == handlers[stream]
    IN  /\ h.pc = "locked"
        /\ cache' = IF h.op = "removeService" THEN removeService(cache, h.svc[1])
                    ELSE setSubCache(cache, h.svc[1].Name, h.sub,
                                     domainPath \o <<serviceSubdomain, h.svc[1].Namespace>>)
        /\ handlers' = [handlers EXCEPT ![stream].pc = "swapped"]
        /\ query' = IF query.pc = "locked" THEN [query EXCEPT !.raced = TRUE] ELSE query
        /\ UNCHANGED <<servicesStore, endpointsStore, last, cacheLock, boot>>

\* the deferred kd.cacheLock.Unlock(), and the handler returns
Unlock(stream) ==
    /\ handlers[stream].pc = "swapped"
    /\ cacheLock' = [cacheLock EXCEPT !.writer = "none"]
    /\ handlers' = [handlers EXCEPT ![stream] = Idle]
    /\ UNCHANGED <<servicesStore, endpointsStore, cache, last, query, boot>>

\* Records(name, false) of a service name: kd.cacheLock.RLock()
RLock(name) ==
    /\ query.pc = "idle"
    /\ CanRLock(cacheLock)
    /\ cacheLock' = [cacheLock EXCEPT !.readers = @ + 1]
    /\ query' = [pc |-> "locked", name |-> name, raced |-> FALSE, result |-> <<>>]
    /\ UNCHANGED <<servicesStore, endpointsStore, cache, last, handlers, boot>>

\* kd.cache.getValuesForPathWithWildcards(...): a read that overlaps a write
\* of the tree is a data race
Read ==
    /\ query.pc = "locked"
    /\ \E r \in {Records(cache, query.name, FALSE)}
                    \cup (IF query.raced \/ cacheLock.writer # "none" THEN {Torn} ELSE {}) :
           query' = [query EXCEPT !.pc = "read", !.result = <<r>>]
    /\ UNCHANGED <<servicesStore, endpointsStore, cache, last, handlers, cacheLock, boot>>

\* the deferred kd.cacheLock.RUnlock(), and Records returns
RUnlock ==
    /\ query.pc = "read"
    /\ cacheLock' = [cacheLock EXCEPT !.readers = @ - 1]
    /\ query' = [pc |-> "idle", name |-> <<>>, raced |-> FALSE, result |-> <<>>]
    /\ UNCHANGED <<servicesStore, endpointsStore, cache, last, handlers, boot>>

ConcNext ==
    \/ \E s \in ConcServices : ConcServiceAdd(s)
    \/ \E s \in ConcServices : ConcServiceUpdate(s)
    \/ \E key \in DOMAIN servicesStore : ConcServiceDelete(key)
    \/ \E e \in ConcEndpoints : ConcEndpointsAdd(e)
    \/ \E e \in ConcEndpoints : ConcEndpointsUpdate(e)
    \/ \E key \in DOMAIN endpointsStore : ConcEndpointsDelete(key)
    \/ ServiceBuild
    \/ EndpointsBuild
    \/ \E stream \in Streams : Lock(stream)
    \/ \E stream \in Streams : Swap(stream)
    \/ \E stream \in Streams : Unlock(stream)
    \/ \E name \in ConcQueries : RLock(name)
    \/ Read
    \/ RUnlock

ConcSpec == ConcInit /\ [][ConcNext]_vars

\* the subcaches the handlers can build for default/testservice from the
\* objects of the catalogue, each a complete one
CompleteSubCaches ==
    { PortalSubCache(s) : s \in { x \in ConcServices : IsServiceIPSet(x) } }
    \cup { HeadlessSubCache(e, s, getPodHostnamesFromAnnotation(e.Annotations).hostnames) :
               s \in { x \in ConcServices : ~IsServiceIPSet(x) },
               e \in { x \in ConcEndpoints :
                           getPodHostnamesFromAnnotation(x.Annotations).err = NoError } }

\* the answers to a query when the service has no subtree or a complete one
CompleteAnswers(name) ==
    { Records(NewTreeCache, name, FALSE) }
    \cup { Records(setSubCache(NewTreeCache, n1, sub, domainPath \o <<serviceSubdomain, ns1>>),
                   name, FALSE) : sub \in CompleteSubCaches }

\* C12 (atomic replacement): a query that runs while a handler replaces the
\* records of the service never reads the tree while it is written: no
\* goroutine holds the read lock while a handler holds the write lock, a
\* handler writes the cache only with the write lock held, and the result of
\* the query is the full record set of the cache as it is while the query
\* holds its lock, which is the set of no subtree or of one complete subtree,
\* the old or the new one.
C12_AtomicReplacement ==
    /\ ~(cacheLock.writer # "none" /\ cacheLock.readers > 0)
    /\ \A stream \in Streams :
           handlers[stream].pc \in {"locked", "swapped"} <=> cacheLock.writer = stream
    /\ query.pc = "read"
           => /\ query.result[1] = Records(cache, query.name, FALSE)
              /\ query.result[1] \in CompleteAnswers(query.name)

\* a query has read the records of the service while a handler that has built
\* another subtree for the service waits for the lock
C12_Witness ==
    /\ query.pc = "read"
    /\ Len(query.result[1].recs) > 0
    /\ \E stream \in Streams :
           /\ handlers[stream].pc = "built"
           /\ handlers[stream].op # "removeService"
           /\ handlers[stream].sub
                  # getSubCache(cache, domainPath \o <<serviceSubdomain, ns1, n1>>).node

\* no handler is running
Quiescent == \A stream \in Streams : handlers[stream].pc = "idle"

FocusKey == MetaNamespaceKeyFunc(Service(ns1, n1, ClusterIPNone, HeadlessPorts))

FocusSubCache == getSubCache(cache, domainPath \o <<serviceSubdomain, ns1, n1>>)

\* C13 (inter-stream convergence), as stated: once the handlers of both
\* streams have completed, the subtree of a headless service whose endpoints
\* object is in the store is the one synthesized from the service and the
\* endpoints object the stores hold.
C13_AsStated ==
    (/\ Quiescent
     /\ FocusKey \in DOMAIN servicesStore
     /\ FocusKey \in DOMAIN endpointsStore
     /\ ~IsServiceIPSet(servicesStore[FocusKey])
     /\ getPodHostnamesFromAnnotation(endpointsStore[FocusKey].Annotations).err = NoError)
        => /\ FocusSubCache.ok
           /\ FocusSubCache.node
                  = HeadlessSubCache(endpointsStore[FocusKey], servicesStore[FocusKey],
                        getPodHostnamesFromAnnotation(
                            endpointsStore[FocusKey].Annotations).hostnames)

\* C14 (delete leads to absent), as stated: once the service is out of the
\* store and every handler has completed, no query returns a record under
\* the path of the service.
C14_AsStated ==
    (Quiescent /\ FocusKey \notin DOMAIN servicesStore)
        => /\ ~FocusSubCache.ok
           /\ \A name \in ConcQueries : NotFound(Records(cache, name, FALSE))

\* the endpoints objects whose pod-hostnames annotation is no JSON text (its
\* closing brace is missing)
BrokenEndpoints ==
    { e \in EndpointsObjects :
          /\ PodHostnamesAnnotation \in DOMAIN e.Annotations
          /\ e.Annotations[PodHostnamesAnnotation] = BrokenAnnotation }

(***************************************************************************)
(* C15 (synthesis failure changes nothing): in every reachable state, for  *)
(* every endpoints object whose pod-hostnames annotation is no JSON text,  *)
(* generateRecordsForHeadlessService returns the error of the decoder and  *)
(* leaves the whole cache as it is, and so do the handlers that call it:   *)
(* handleEndpointAdd of the object while its service is headless, and      *)
(* newService of a headless service while the endpoints store holds the    *)
(* object.  After an endpoints update that carries such an annotation the  *)
(* subtree of the service is still the one built from the old object.     *)
(***************************************************************************)
C15_SynthesisFailureKeepsCache ==
    /\ \A e \in BrokenEndpoints :
           /\ \A s \in { x \in ServiceObjects : ~IsServiceIPSet(x) } :
                  generateRecordsForHeadlessService(cache, e, s)
                      = [err |-> ErrInvalidJSON, cache |-> cache]
           /\ handleEndpointAdd(cache, servicesStore, e) = cache
           /\ MetaNamespaceKeyFunc(e) \in HeadlessServices
                  => addDNSUsingEndpoints(cache, servicesStore, e).err = ErrInvalidJSON
    /\ \A key \in DOMAIN endpointsStore :
           endpointsStore[key] \in BrokenEndpoints
               => \A s \in { x \in ServiceObjects :
                                 ~IsServiceIPSet(x) /\ MetaNamespaceKeyFunc(x) = key } :
                      newService(cache, endpointsStore, s) = cache
    /\ (/\ last.op = "handleEndpointUpdate"
        /\ last.key \in HeadlessServices
        /\ last.old[1] \notin BrokenEndpoints
        /\ last.new[1] \in BrokenEndpoints)
           => LET svc == servicesStore[last.key]
                  sub == getSubCache(cache, domainPath \o <<serviceSubdomain,
                                                            svc.Namespace, svc.Name>>)
              IN  /\ sub.ok
                  /\ sub.node = HeadlessSubCache(last.old[1], svc,
                         getPodHostnamesFromAnnotation(last.old[1].Annotations).hostnames)

\* the endpoints of a headless service with records were updated to an
\* object whose annotation is no JSON text, and the query of the service
\* still returns the records of the old object
C15_Witness ==
    /\ last.op = "handleEndpointUpdate"
    /\ last.key \in HeadlessServices
    /\ last.old[1] \notin BrokenEndpoints
    /\ last.new[1] \in BrokenEndpoints
    /\ Len(ARecordsOf(last.old[1])) > 0
    /\ SameRecords(Lookup(ServiceFQDN(last.new[1].Namespace, last.new[1].Name)).recs,
                   ARecordsOf(last.old[1]))
    /\ ARecordsOf(last.old[1]) # ARecordsOf(last.new[1])

(***************************************************************************)
(* C17 (endpoints events of portal or unknown services change nothing): in *)
(* every reachable state, for every endpoints object whose service is not  *)
(* in the services store or is a portal service there, handleEndpointAdd   *)
(* (the handler of both the add and the update) leaves the cache as it is *)
(* and reports no error.  After such an event the service has no subtree   *)
(* when it is unknown, and the subtree of its portal form otherwise.       *)
(***************************************************************************)
C17_EndpointsFrame ==
    /\ \A e \in EndpointsObjects :
           (\/ MetaNamespaceKeyFunc(e) \notin DOMAIN servicesStore
            \/ MetaNamespaceKeyFunc(e) \in PortalServices)
               => /\ handleEndpointAdd(cache, servicesStore, e) = cache
                  /\ addDNSUsingEndpoints(cache, servicesStore, e)
                         = [err |-> NoError, cache |-> cache]
    /\ (last.op \in EndpointsEvents /\ last.key \notin DOMAIN servicesStore)
           => ~getSubCache(cache, domainPath \o <<serviceSubdomain, last.new[1].Namespace,
                                                   last.new[1].Name>>).ok
    /\ (last.op \in EndpointsEvents /\ last.key \in PortalServices)
           => getSubCache(cache, domainPath \o <<serviceSubdomain, last.new[1].Namespace,
                                                  last.new[1].Name>>)
                  = [ok |-> TRUE, node |-> PortalSubCache(servicesStore[last.key])]

\* an endpoints object with addresses was delivered for a portal service and
\* the query of the service returns the cluster IP alone
C17_Witness ==
    /\ last.op \in EndpointsEvents
    /\ last.key \in PortalServices
    /\ Len(AddressesOf(last.new[1])) > 0
    /\ IsSingle(Lookup(ServiceFQDN(last.new[1].Namespace, last.new[1].Name)),
                SkyMsg(servicesStore[last.key].ClusterIP, 0))

\* the nodes of the tree at the path, the labels taken as they are written:
\* none or one
RECURSIVE NodesAt(_, _)
NodesAt(node, path) ==
    IF path = <<>> THEN {node}
    ELSE UNION { NodesAt(node.ChildNodes[l], Tail(path)) :
                     l \in DOMAIN node.ChildNodes \cap {Head(path)} }

\* last labels of exact queries: the labels of endpoints and of portal
\* services, hostnames, the wildcard and the empty label
ExactLabels ==
    { getSkyMsgLabel(ClusterIPPool[1], 0), getSkyMsgLabel(EndpointIPPool[1], 0),
      web, Wildcard, <<>> }

\* paths of exact queries, root first: the node of a service, a label under
\* it and a label under one of its ports, with the namespace written out or
\* as the wildcard
ExactPaths ==
    LET services == { <<ns1, n1>>, <<ns2, n1>>, <<Wildcard, n1>> }
    IN  { domainPath \o <<serviceSubdomain, s[1], s[2]>> : s \in services }
        \cup { domainPath \o <<serviceSubdomain, s[1], s[2], l>> :
                   s \in services, l \in ExactLabels }
        \cup { domainPath \o <<serviceSubdomain, s[1], s[2], <<"_">> \o ToLower(TCP),
                               <<"_">> \o http1, l>> :
                   s \in services, l \in ExactLabels }

\* the name of a path
NameOf(path) == Join(reverseArray(path), Dot)

\* what an exact query of the path is to return
ExactAnswer(c, path) ==
    LET key == path[Len(path)]
        at  == { n \in NodesAt(c, SubSeq(path, 1, Len(path) - 1)) :
                     key \in DOMAIN n.Entries }
    IN  IF key = <<>> THEN [recs |-> <<>>, err |-> NoError]
        ELSE IF at = {} THEN [recs |-> <<>>, err |-> ErrKeyNotFound]
        ELSE [recs |-> <<(CHOOSE n \in at : TRUE).Entries[key]>>, err |-> NoError]

(***************************************************************************)
(* C18 (exact mode): in every reachable state, for every path P of the     *)
(* exact queries (none of them of a pod), Records(name of P, true), with   *)
(* or without a trailing dot, returns the empty list and no error when the *)
(* last label of P is empty; otherwise the one record stored as the entry  *)
(* P[last] of the node reached by the labels before it, when there is such *)
(* an entry, and not-found in every other case, whatever the nodes below   *)
(* hold; it never returns more than one record.                            *)
(***************************************************************************)
C18_ExactMode ==
    \A path \in ExactPaths :
        /\ ~isPodRecord(path)
        /\ Records(cache, NameOf(path), TRUE) = ExactAnswer(cache, path)
        /\ Records(cache, NameOf(path) \o Dot, TRUE) = ExactAnswer(cache, path)
        /\ Len(ExactAnswer(cache, path).recs) <= 1

\* an exact query of an endpoint of a headless service returns its record, the
\* exact query of the service itself finds no entry, and the same name in
\* wildcard mode returns the records of two endpoints
C18_Witness ==
    /\ \E path \in ExactPaths :
           /\ Len(path) = Len(domainPath) + 4
           /\ Records(cache, NameOf(path), TRUE).err = NoError
           /\ Len(Records(cache, NameOf(path), TRUE).recs) = 1
    /\ NotFound(Records(cache, ServiceFQDN(ns1, n1), TRUE))
    /\ Len(Records(cache, ServiceFQDN(ns1, n1), FALSE).recs) >= 2
    /\ ServiceFQDN(ns1, n1) \in { NameOf(path) \o Dot : path \in ExactPaths }

\* labels that decode to no IP: three fields, a field above 255, letters,
\* five fields, an empty field, and the empty label
InvalidPodLabels ==
    { <<"1","0","-","0","-","0">>,
      <<"2","5","6","-","0","-","0","-","1">>,
      <<"a","b","c">>,
      <<"1","0","-","0","-","0","-","1","-","5">>,
      <<"1","-","-","2","-","3">>,
      <<>> }

\* the name of a pod with the label in the namespace
PodName(label, ns) == Join(<<label, ns, podSubdomain, domain>>, Dot)

(***************************************************************************)
(* C19 (invalid pod IP): in every reachable state, for every namespace and *)
(* every label that decodes (dashes to dots) to no IP, the query of        *)
(* <label>.<ns>.pod.<domain> fails with the invalid-IP error and returns   *)
(* no record, in exact and in wildcard mode; it is not answered from the   *)
(* cache and not with not-found (nor, for the empty label in exact mode,   *)
(* with the empty list).                                                   *)
(***************************************************************************)
C19_InvalidPodIP ==
    \A label \in InvalidPodLabels, ns \in PodNamespaces, exact \in BOOLEAN :
        /\ ~ParseIP(Replace(label, "-", "."))
        /\ Records(cache, PodName(label, ns), exact) = [recs |-> <<>>, err |-> ErrInvalidIP]

\* the cache holds the records of a portal and of a headless service, and a
\* pod name of three fields is refused in both modes
C19_Witness ==
    /\ PortalServices # {}
    /\ GeneratedHeadlessServices # {}
    /\ \A exact \in BOOLEAN :
           Records(cache, PodName(<<"1","0","-","0","-","0">>, ns1), exact).err = ErrInvalidIP
    /\ \A exact \in BOOLEAN :
           Records(cache, PodName(<<>>, ns1), exact).err = ErrInvalidIP

\* the label an address of the endpoints object gets: its hostname, else the
\* valid label the annotation gives its IP, else the label getSkyMsg returns
ExpectedLabel(e, a) ==
    LET ph == getPodHostnamesFromAnnotation(e.Annotations).hostnames
    IN  IF a.Hostname # <<>> THEN a.Hostname
        ELSE IF a.IP \in DOMAIN ph /\ IsDNS1123Label(ph[a.IP].HostName)
        THEN ph[a.IP].HostName
        ELSE getSkyMsg(a.IP, 0)[2]

\* the address has no hostname of either kind
Unnamed(e, a) ==
    LET ph == getPodHostnamesFromAnnotation(e.Annotations).hostnames
    IN  /\ a.Hostname = <<>>
        /\ ~(a.IP \in DOMAIN ph /\ IsDNS1123Label(ph[a.IP].HostName))

\* the label of 10.0.0.1: the A record prints as "&{10.0.0.1 0 10 10  false
\* 30 0  }", its FNV-1a hash is 24c3d825, and the label is the hexadecimal
\* form of the characters of "24c3d825"
LabelOfTenOne == <<"3","2","3","4","6","3","3","3","6","4","3","8","3","2","3","5">>

kubernetesSvcName == <<"k","u","b","e","r","n","e","t","e","s">>

\* the service default/kubernetes, and the services and endpoints the
\* controllers deliver beside it
KubernetesService ==
    Service(ns1, kubernetesSvcName, IP(10, 0, 0, 1), <<Port(https, 443, TCP)>>)

StartServices ==
    { KubernetesService,
      Service(ns1, n1, ClusterIPPool[1], <<Port(http1, 80, TCP)>>),
      Service(ns1, n1, ClusterIPNone, HeadlessPorts),
      Service(ns2, n1, ClusterIPPool[3], <<Port(http1, 8080, TCP)>>) }

StartEndpoints == { e \in ConcEndpoints : e \notin BrokenEndpoints }

StartInit ==
    /\ servicesStore = EmptyMap
    /\ endpointsStore = EmptyMap
    /\ cache = NewTreeCache
    /\ last = [op |-> "none", key |-> <<>>, old |-> <<>>, new |-> <<>>]
    /\ handlers = [stream \in Streams |-> Idle]
    /\ cacheLock = [writer |-> "none", readers |-> 0]
    /\ query = [pc |-> "idle"]
    /\ boot = [pc |-> "new", served |-> FALSE]

\* Start: go kd.endpointsController.Run, go kd.serviceController.Run, and
\* the call of waitForKubernetesService
Start ==
    /\ boot.pc = "new"
    /\ boot' = [boot EXCEPT !.pc = "waiting"]
    /\ UNCHANGED <<servicesStore, endpointsStore, cache, last, handlers, cacheLock, query>>

\* the control plane creates default/kubernetes
ApiServerServes ==
    /\ ~boot.served
    /\ boot' = [boot EXCEPT !.served = TRUE]
    /\ UNCHANGED <<servicesStore, endpointsStore, cache, last, handlers, cacheLock, query>>

\* waitForKubernetesService: kd.kubeClient.Services(default).Get(kubernetes)
\* fails, and the loop sleeps and tries again
GetFails ==
    /\ boot.pc = "waiting"
    /\ ~boot.served
    /\ UNCHANGED vars

\* waitForKubernetesService: the request succeeds, the loop ends and Start
\* returns
GetSucceeds ==
    /\ boot.pc = "waiting"
    /\ boot.served
    /\ boot' = [boot EXCEPT !.pc = "returned"]
    /\ UNCHANGED <<servicesStore, endpointsStore, cache, last, handlers, cacheLock, query>>

\* a controller delivers an object once it runs; default/kubernetes once
\* the control plane has created it
Delivers(key) ==
    /\ boot.pc # "new"
    /\ key = MetaNamespaceKeyFunc(KubernetesService) => boot.served

StartNext ==
    \/ Start
    \/ ApiServerServes
    \/ GetFails
    \/ GetSucceeds
    \/ \E s \in StartServices : Delivers(MetaNamespaceKeyFunc(s)) /\ ServiceAdd(s)
    \/ \E s \in StartServices : Delivers(MetaNamespaceKeyFunc(s)) /\ ServiceUpdate(s)
    \/ \E key \in DOMAIN servicesStore \ {MetaNamespaceKeyFunc(KubernetesService)} :
           Delivers(key) /\ ServiceDelete(key)
    \/ \E e \in StartEndpoints : Delivers(MetaNamespaceKeyFunc(e)) /\ EndpointsAdd(e)
    \/ \E e \in StartEndpoints : Delivers(MetaNamespaceKeyFunc(e)) /\ EndpointsUpdate(e)
    \/ \E key \in DOMAIN endpointsStore : Delivers(key) /\ EndpointsDelete(key)

StartSpec == StartInit /\ [][StartNext]_vars

(***************************************************************************)
(* C16 (startup barrier), as stated: in every state after Start has        *)
(* returned, the query of kubernetes.default.svc.<domain> succeeds, and    *)
(* Start has not returned unless the control plane serves the service.     *)
(***************************************************************************)
C16_AsStated ==
    boot.pc = "returned"
        => /\ boot.served
           /\ Lookup(ServiceFQDN(ns1, kubernetesSvcName)).err = NoError
           /\ Len(Lookup(ServiceFQDN(ns1, kubernetesSvcName)).recs) > 0

\* the caches the handlers leave when called, in the present state, for an
\* object of the service of the namespace and name
AfterHandlers(sn) ==
    LET services == { s \in ServiceObjects : <<s.Namespace, s.Name>> = sn }
        endpoints == { e \in EndpointsObjects : <<e.Namespace, e.Name>> = sn }
    IN  { newService(cache, endpointsStore, s) : s \in services }
        \cup { updateService(cache, endpointsStore, s, s) : s \in services }
        \cup { removeService(cache, s) : s \in services }
        \cup { handleEndpointAdd(cache, servicesStore, e) : e \in endpoints }

\* the subtree of the service in the cache
SubtreeOf(c, sn) == getSubCache(c, domainPath \o <<serviceSubdomain, sn[1], sn[2]>>)

\* queries about the service: every name below it, and the name of its port
\* http1
QueriesAbout(sn) ==
    { QueryLeadingWildcard(sn[1], sn[2]), SRVFQDN(sn[1], sn[2], http1, TCP) }

C22_ExactPortalNameMisses ==
    \A key \in PortalServices :
        LET s     == servicesStore[key]
            label == getSkyMsg(s.ClusterIP, 0)[2]
            nsAt  == getSubCache(cache, domainPath \o <<serviceSubdomain, s.Namespace>>)
        IN  /\ nsAt.ok
            /\ s.Name \notin DOMAIN nsAt.node.Entries
            /\ s.Name \in DOMAIN nsAt.node.ChildNodes
            /\ nsAt.node.ChildNodes[s.Name].Entries
                   = MapPut(EmptyMap, label, SkyMsg(s.ClusterIP, 0))
            /\ NotFound(Records(cache, ServiceFQDN(s.Namespace, s.Name), TRUE))
            /\ IsSingle(Records(cache, ServiceFQDN(s.Namespace, s.Name), FALSE),
                        SkyMsg(s.ClusterIP, 0))
            /\ IsSingle(Records(cache, EndpointFQDN(s.Namespace, s.Name, label), TRUE),
                        SkyMsg(s.ClusterIP, 0))

\* newService has installed a portal service with a named port; the exact
\* query of its name is not found and the wildcard-mode query returns its
\* A record
C22_Witness ==
    /\ last.op = "newService"
    /\ last.key \in PortalServices
    /\ NamedPorts(last.new[1].Ports) # {}
    /\ NotFound(Records(cache, ServiceFQDN(last.new[1].Namespace, last.new[1].Name), TRUE))
    /\ IsSingle(Lookup(ServiceFQDN(last.new[1].Namespace, last.new[1].Name)),
                SkyMsg(last.new[1].ClusterIP, 0))

(***************************************************************************)
(* C23 (deletion of endpoints has no handler): whenever the last event was *)
(* the deletion of the endpoints object E of a headless service in the     *)
(* services store, and the annotation of E is well-formed, the subtree of  *)
(* the service is still the one built from E: the query of                 *)
(* n.ns.svc.<domain> returns the A records of E and the query of each      *)
(* named port the SRV records of E, although the endpoints store holds no  *)
(* object of the service.                                                  *)
(***************************************************************************)
C23_EndpointsDeleteKeepsRecords ==
    (/\ last.op = "endpointsDelete"
     /\ last.key \in HeadlessServices
     /\ ValidAnnotation(last.old[1]))
        => LET e == last.old[1]
               s == servicesStore[last.key]
           IN  /\ last.key \notin DOMAIN endpointsStore
               /\ SubtreeOf(cache, <<s.Namespace, s.Name>>)
                      = [ok |-> TRUE,
                         node |-> HeadlessSubCache(e, s,
                             getPodHostnamesFromAnnotation(e.Annotations).hostnames)]
               /\ SameRecords(Lookup(ServiceFQDN(s.Namespace, s.Name)).recs, ARecordsOf(e))
               /\ \A pn \in SRVNamesOf(e) :
                      SameRecords(Lookup(SRVFQDN(s.Namespace, s.Name, pn[1], pn[2])).recs,
                                  SRVRecordsOf(s, e, pn))

\* the endpoints object of a headless service, with two addresses and a named
\* port, was deleted, and the queries of the service and of the port still
\* return records
C23_Witness ==
    /\ last.op = "endpointsDelete"
    /\ last.key \in HeadlessServices
    /\ ValidAnnotation(last.old[1])
    /\ last.key \notin DOMAIN endpointsStore
    /\ Len(ARecordsOf(last.old[1])) >= 2
    /\ SRVNamesOf(last.old[1]) # {}
    /\ Len(Lookup(ServiceFQDN(last.old[1].Namespace, last.old[1].Name)).recs) >= 2
    /\ \A pn \in SRVNamesOf(last.old[1]) :
           Lookup(SRVFQDN(last.old[1].Namespace, last.old[1].Name, pn[1], pn[2])).err
               = NoError

====
